---- MODULE Spec2Model ----
(***************************************************************************)
(* A model of distill's scoring composition engine (src/distill):          *)
(* the Pipeline (construction, score, _apply_auto_profile,                 *)
(* _score_paragraphs, score_batch), the scorer and profile registries,     *)
(* ScoreResult and QualityReport, and detect_content_type.                 *)
(*                                                                         *)
(* Numbers.  Scores and weights are Python floats in the code.  Here a     *)
(* score s is the integer 100*s (hundredths) and a weight w the integer    *)
(* 100*w.  A quotient such as overall_score is kept as an exact fraction   *)
(* [n, d] of hundredths in lowest terms, so 0.8 is [n |-> 80, d |-> 1].    *)
(* Floating-point rounding is not modelled.                                *)
(*                                                                         *)
(* Texts.  A text is [pad, paras]: paras is the sequence of its            *)
(* blank-line-separated paragraphs and pad says whether whitespace         *)
(* surrounds them.  "" is [pad |-> FALSE, paras |-> <<>>] and a            *)
(* whitespace-only text is [pad |-> TRUE, paras |-> <<>>].  A paragraph    *)
(* is [wc, cls]: wc single-letter words separated by single spaces, of     *)
(* content class cls.  Two texts are the same string iff the records are   *)
(* equal.                                                                  *)
(***************************************************************************)
EXTENDS Integers, Sequences, FiniteSets, TLC

VARIABLES
    ctor,                   \* the arguments Pipeline.__init__ was called with
    scorers,                \* self._scorers (scorer names, in configured order)
    auto_profile,           \* self._auto_profile
    weight_overrides,       \* self._weight_overrides
    detected_content_type,  \* self._detected_content_type
    call,                   \* the last completed call of an operation and what it did
    batch,                  \* the score_batch call in progress, if any
    workers,                \* per batch item: the worker thread's position and locals
    batch_result,           \* what the last score_batch call returned
    profiles,               \* distill.profiles._profiles: name -> weights
    cache,                  \* the rows of ScoreCache's score_history table
    model,                  \* OriginalityScorer._model
    threads,                \* per thread in OriginalityScorer.score: position and locals
    now,                    \* watch: the time
    timers,                 \* watch: the threading.Timer objects created so far
    events,                 \* watch: the times of the on_modified events
    rescores                \* watch: the times _on_change ran

pipeVars == <<ctor, scorers, auto_profile, weight_overrides, detected_content_type>>
batchVars == <<batch, workers, batch_result>>
originalityVars == <<model, threads>>
watchVars == <<now, timers, events, rescores>>
auxVars == <<profiles, cache, model, threads, now, timers, events, rescores>>
vars == <<ctor, scorers, auto_profile, weight_overrides, detected_content_type,
          call, batch, workers, batch_result, profiles, cache, model, threads,
          now, timers, events, rescores>>

(***************************************************************************)
(* Bounds of the model.                                                    *)
(***************************************************************************)
MaxScorers == 2     \* longest scorer list a Pipeline is built with
MaxParas == 1       \* most paragraphs in a text
MaxBatch == 2       \* most items in one score_batch call

(***************************************************************************)
(* Arithmetic helpers.                                                     *)
(***************************************************************************)
Abs(x) == IF x < 0 THEN -x ELSE x

RECURSIVE GCD(_, _)
GCD(a, b) == IF b = 0 THEN a ELSE GCD(b, a % b)

\* The fraction n/d (d > 0) in lowest terms.
Frac(n, d) ==
    LET g == GCD(Abs(n), d)
    IN  [n |-> n \div g, d |-> d \div g]

FracLess(x, y) == x.n * y.d < y.n * x.d
FracLeq(x, y) == x.n * y.d <= y.n * x.d
FracAdd(x, y) == Frac(x.n * y.d + y.n * x.d, x.d * y.d)
FracMin(x, y) == IF FracLeq(x, y) THEN x ELSE y

\* Python's dict: a function from a finite set of keys.
EmptyMap == [k \in {} |-> 0]

\* an optional value: None, or Some(v)
None == <<>>
Some(v) == <<v>>

\* d.get(k, default)
Get(d, k, default) == IF k \in DOMAIN d THEN d[k] ELSE default

\* a.update(b): b's entries win
Update(a, b) ==
    [k \in (DOMAIN a) \cup (DOMAIN b) |-> IF k \in DOMAIN b THEN b[k] ELSE a[k]]

(***************************************************************************)
(* The scorer registry (scorer.py, scorers/__init__.py) and the profile    *)
(* registry (profiles.py).  Weights are in hundredths.                     *)
(***************************************************************************)
\* Scorer.weight of each scorer that importing distill.scorers registers
ScorerWeight ==
    [substance |-> 150, epistemic |-> 100, readability |-> 75,
     originality |-> 75, authority |-> 50, argument |-> 75]

\* word_count below which the scorer returns its short-text result
ScorerMinWords ==
    [substance |-> 20, epistemic |-> 30, readability |-> 20,
     originality |-> 50, authority |-> 20, argument |-> 30]

\* the score of that short-text result
ScorerShortScore ==
    [substance |-> 0, epistemic |-> 50, readability |-> 50,
     originality |-> 50, authority |-> 50, argument |-> 50]

\* _profiles after the built-in register_profile calls
Profiles ==
    [default   |-> [substance |-> 150, epistemic |-> 100, readability |-> 75],
     technical |-> [substance |-> 200, epistemic |-> 50,  readability |-> 100],
     news      |-> [substance |-> 100, epistemic |-> 200, readability |-> 100],
     opinion   |-> [substance |-> 100, epistemic |-> 150, readability |-> 100]]

\* get_profile(name).weights
GetProfileWeights(name) == profiles[name]

\* what the state outside the Pipeline is once distill is imported: the
\* built-in profiles registered, nothing cached, no enrichment model loaded,
\* no watch running
InitAux ==
    /\ profiles = Profiles
    /\ cache = {}
    /\ model = None
    /\ threads = <<>>
    /\ now = 0
    /\ timers = <<>>
    /\ events = <<>>
    /\ rescores = <<>>

(***************************************************************************)
(* Texts and metadata: the inputs of a scoring call.                       *)
(***************************************************************************)
\* the paragraphs texts are made of: a short technical one and a long one
\* of news
Paras == {[wc |-> 40, cls |-> "technical"], [wc |-> 1000, cls |-> "news"]}

RECURSIVE SeqsUpTo(_, _)
\* all sequences over S of length at most n
SeqsUpTo(S, n) ==
    IF n = 0 THEN {<<>>}
    ELSE LET shorter == SeqsUpTo(S, n - 1)
         IN  shorter \cup {Append(q, x) : q \in shorter, x \in S}

Texts == [pad : BOOLEAN, paras : SeqsUpTo(Paras, MaxParas)]

\* metadata: None (url "none") or {"url": ...}; the url is kept as the
\* content type whose domain or path patterns it matches
NoMeta == [url |-> "none"]
Metas == {NoMeta, [url |-> "news"]}

\* IsBlank without the strip: only "" counts as blank
IsBlankEmptyOnly(text) == text.paras = <<>> /\ ~text.pad

\* not text or not text.strip()
IsBlank(text) == text.paras = <<>>

\* text.strip()
Strip(text) == [pad |-> FALSE, paras |-> text.paras]

\* the string of one paragraph, stripped
ParaText(para) == [pad |-> FALSE, paras |-> <<para>>]

RECURSIVE SumWords(_)
SumWords(ps) == IF ps = <<>> THEN 0 ELSE Head(ps).wc + SumWords(Tail(ps))

\* len(text.split())
WordCount(text) == SumWords(text.paras)

RECURSIVE SumChars(_)
SumChars(ps) ==
    IF ps = <<>> THEN 0
    ELSE (2 * Head(ps).wc - 1) + (IF Tail(ps) = <<>> THEN 0 ELSE 2) + SumChars(Tail(ps))

\* len(text): the words, a space between two words, "\n\n" between two
\* paragraphs, one whitespace character at each end of a padded text
TextLength(text) == SumChars(text.paras) + (IF text.pad THEN 2 ELSE 0)

(***************************************************************************)
(* detect_content_type (content_type.py).                                  *)
(***************************************************************************)
\* the order in which detect_content_type fills its scores dict
CategoryOrder == <<"technical", "news", "opinion">>

\* len(pattern.findall(text)) summed over a category's patterns: a
\* paragraph of class cls holds one match of that category's patterns
HitsIn(cat, para) == IF para.cls = cat THEN 1 ELSE 0

RECURSIVE SumHits(_, _)
SumHits(cat, ps) ==
    IF ps = <<>> THEN 0 ELSE HitsIn(cat, Head(ps)) + SumHits(cat, Tail(ps))

\* total_hits of one category over the whole text
TotalHits(cat, text) == SumHits(cat, text.paras)

UrlBoost == 30              \* _URL_BOOST = 0.3
ConfidenceThreshold == 15   \* _CONFIDENCE_THRESHOLD = 0.15

\* _url_signals(url): the boost of each category
UrlSignals(url) ==
    [c \in {"technical", "news", "opinion"} |-> IF url = c THEN UrlBoost ELSE 0]

\* Density with the URL boost added whether or not the text has any signal
DensityAlwaysBoosted(hits, word_count, boost) ==
    LET density == IF word_count > 0
                   THEN FracMin(Frac(100 * 100 * hits, word_count), Frac(100, 1))
                   ELSE Frac(0, 1)
    IN  IF boost > 0
        THEN FracMin(FracAdd(density, Frac(boost, 1)), Frac(100, 1))
        ELSE density

\* density of one category: hits per 100 words capped at 1.0, plus the URL
\* boost when the text itself already has some signal
Density(hits, word_count, boost) ==
    LET density == IF word_count > 0
                   THEN FracMin(Frac(100 * 100 * hits, word_count), Frac(100, 1))
                   ELSE Frac(0, 1)
    IN  IF FracLess(Frac(0, 1), density) /\ boost > 0
        THEN FracMin(FracAdd(density, Frac(boost, 1)), Frac(100, 1))
        ELSE density

\* max(scores, key=...) over the dict read in the opposite order
BestLabelLast(dens) ==
    LET isMax(i) == \A j \in 1..Len(CategoryOrder) :
                        FracLeq(dens[CategoryOrder[j]], dens[CategoryOrder[i]])
        last == CHOOSE i \in 1..Len(CategoryOrder) :
                    isMax(i) /\ \A j \in (i + 1)..Len(CategoryOrder) : ~isMax(j)
    IN  CategoryOrder[last]

\* max(scores, key=...): the first category, in dict order, of maximal density
BestLabel(dens) ==
    LET isMax(i) == \A j \in 1..Len(CategoryOrder) :
                        FracLeq(dens[CategoryOrder[j]], dens[CategoryOrder[i]])
        first == CHOOSE i \in 1..Len(CategoryOrder) :
                     isMax(i) /\ \A j \in 1..(i - 1) : ~isMax(j)
    IN  CategoryOrder[first]

\* url_boosts: _url_signals(metadata["url"]) if there is a url, else zeros
UrlBoosts(meta) ==
    IF meta.url # "none"
    THEN UrlSignals(meta.url)
    ELSE [c \in {"technical", "news", "opinion"} |-> 0]

\* the density detect_content_type stores for each category in scores
Densities(text, meta) ==
    [c \in {"technical", "news", "opinion"} |->
        Density(TotalHits(c, text), WordCount(text), UrlBoosts(meta)[c])]

\* signal_counts of one category: the match count of each pattern that
\* matched, keyed by pattern; the category's patterns are one key here
SignalCounts(cat, text) ==
    IF TotalHits(cat, text) > 0
    THEN [k \in {cat} |-> TotalHits(cat, text)]
    ELSE EmptyMap

DetectContentType(text, meta) ==
    IF IsBlank(text) \/ WordCount(text) = 0
    THEN [name |-> "default", confidence |-> Frac(0, 1), signals |-> EmptyMap]
    ELSE LET dens == Densities(text, meta)
             best_label == BestLabel(dens)
             best_score == dens[best_label]
         IN  IF FracLess(best_score, Frac(ConfidenceThreshold, 1))
             THEN [name |-> "default", confidence |-> best_score,
                   signals |-> EmptyMap]
             ELSE [name |-> best_label, confidence |-> best_score,
                   signals |-> SignalCounts(best_label, text)]

(***************************************************************************)
(* Scorers and ScoreResult (scorer.py, scorers/*.py).                      *)
(***************************************************************************)
\* ScoreResult.__post_init__: max(0.0, min(1.0, score))
Clamp01(x) == IF x < 0 THEN 0 ELSE IF x > 100 THEN 100 ELSE x

\* ScoreResult(name=..., score=...)
ScoreResult(name, score) == [name |-> name, score |-> Clamp01(score)]

\* What each scorer makes of text of one content class, once the text is
\* long enough for it.  The engine sees a scorer only as a deterministic
\* function of the text; this table fixes one such function per scorer.
ContentScore ==
    [technical |-> [substance |-> 80, epistemic |-> 35, readability |-> 65,
                    originality |-> 50, authority |-> 65, argument |-> 50],
     news      |-> [substance |-> 65, epistemic |-> 80, readability |-> 50,
                    originality |-> 0, authority |-> 100, argument |-> 35],
     opinion   |-> [substance |-> 81, epistemic |-> 50, readability |-> 65,
                    originality |-> 65, authority |-> 35, argument |-> 49],
     plain     |-> [substance |-> 50, epistemic |-> 50, readability |-> 80,
                    originality |-> 35, authority |-> 50, argument |-> 50]]

RECURSIVE SumContent(_, _)
SumContent(name, ps) ==
    IF ps = <<>> THEN 0
    ELSE Head(ps).wc * ContentScore[Head(ps).cls][name] + SumContent(name, Tail(ps))

\* scorer.score(text, metadata): the short-text result below the scorer's
\* minimum word count, else the word-weighted content score of the text
ScorerScore(name, text, meta) ==
    IF WordCount(text) < ScorerMinWords[name]
    THEN ScoreResult(name, ScorerShortScore[name])
    ELSE ScoreResult(name, SumContent(name, text.paras) \div WordCount(text))

(***************************************************************************)
(* QualityReport and ParagraphScore (pipeline.py).                         *)
(***************************************************************************)
GradeA == 80
GradeB == 65
GradeC == 50
GradeD == 35

\* Grade with the thresholds compared strictly
GradeStrict(report) ==
    IF FracLess(Frac(GradeA, 1), report.overall_score) THEN "A"
    ELSE IF FracLess(Frac(GradeB, 1), report.overall_score) THEN "B"
    ELSE IF FracLess(Frac(GradeC, 1), report.overall_score) THEN "C"
    ELSE IF FracLess(Frac(GradeD, 1), report.overall_score) THEN "D"
    ELSE "F"

\* QualityReport.grade
Grade(report) ==
    IF FracLeq(Frac(GradeA, 1), report.overall_score) THEN "A"
    ELSE IF FracLeq(Frac(GradeB, 1), report.overall_score) THEN "B"
    ELSE IF FracLeq(Frac(GradeC, 1), report.overall_score) THEN "C"
    ELSE IF FracLeq(Frac(GradeD, 1), report.overall_score) THEN "D"
    ELSE "F"

\* QualityReport.label
Label(report) ==
    LET labels == [A |-> "High substance", B |-> "Solid content", C |-> "Average",
                   D |-> "Thin content", F |-> "Low substance"]
    IN  labels[Grade(report)]

QualityReport(overall, results, text_length, word_count, paragraph_scores) ==
    [overall_score |-> overall, scores |-> results, text_length |-> text_length,
     word_count |-> word_count, paragraph_scores |-> paragraph_scores]

MinParagraphWords == 30     \* _MIN_PARAGRAPH_WORDS

(***************************************************************************)
(* Pipeline (pipeline.py).                                                 *)
(***************************************************************************)
\* self._detected_content_type = None
NoContentType == [name |-> "None", confidence |-> Frac(0, 1), signals |-> EmptyMap]

\* InitWeightOverrides with the update the wrong way round: the profile's
\* weights over the caller's
InitWeightOverridesProfileWins(args) ==
    LET profile_weights == IF args.profile # "None"
                           THEN GetProfileWeights(args.profile)
                           ELSE EmptyMap
    IN  Update(args.weights, profile_weights)

\* Pipeline.__init__, the weight map: the profile's weights, then the
\* caller's weights over them.  profile "None" is profile=None; an empty
\* weights map is weights=None or {}.
InitWeightOverrides(args) ==
    LET profile_weights == IF args.profile # "None"
                           THEN GetProfileWeights(args.profile)
                           ELSE EmptyMap
    IN  IF args.weights # EmptyMap
        THEN Update(profile_weights, args.weights)
        ELSE profile_weights

\* Pipeline.__init__: self._auto_profile
InitAutoProfile(args) == args.auto_profile /\ args.profile = "None"

\* Pipeline._apply_auto_profile, the map it leaves in self._weight_overrides
\* once ct is detected: the detected profile's weights, then the current
\* map over them
MergeProfile(ct, overrides) ==
    IF ct.name # "default"
    THEN Update(GetProfileWeights(ct.name), overrides)
    ELSE overrides

\* self._weight_overrides.get(scorer.name, scorer.weight)
WeightFor(overrides, name) == Get(overrides, name, ScorerWeight[name])

\* Overall without the division by the total weight
OverallUndivided(weighted_sum, total_weight) ==
    IF total_weight > 0 THEN Frac(weighted_sum, 100) ELSE Frac(0, 1)

\* weighted_sum / total_weight if total_weight > 0 else 0.0
Overall(weighted_sum, total_weight) ==
    IF total_weight > 0 THEN Frac(weighted_sum, total_weight) ELSE Frac(0, 1)

NoResults == [results |-> <<>>, weighted_sum |-> 0, total_weight |-> 0, log |-> <<>>]

\* LoopStep that adds result.score to weighted_sum without the weight
LoopStepUnweighted(names, k, overrides, text, meta, acc) ==
    LET result == ScorerScore(names[k], text, meta)
        weight == WeightFor(overrides, names[k])
    IN  [results |-> Append(acc.results, result),
         weighted_sum |-> acc.weighted_sum + result.score * 100,
         total_weight |-> acc.total_weight + weight,
         log |-> Append(acc.log, [idx |-> k, name |-> names[k], text |-> text,
                                  weight |-> weight])]

\* One iteration of the "for scorer in self._scorers" loop, on the k-th
\* scorer.  log records the call of scorer.score and the weight looked up.
LoopStep(names, k, overrides, text, meta, acc) ==
    LET result == ScorerScore(names[k], text, meta)
        weight == WeightFor(overrides, names[k])
    IN  [results |-> Append(acc.results, result),
         weighted_sum |-> acc.weighted_sum + result.score * weight,
         total_weight |-> acc.total_weight + weight,
         log |-> Append(acc.log, [idx |-> k, name |-> names[k], text |-> text,
                                  weight |-> weight])]

RECURSIVE ScorerLoop(_, _, _, _, _, _)
\* the whole loop, from the k-th scorer on
ScorerLoop(names, k, overrides, text, meta, acc) ==
    IF k > Len(names) THEN acc
    ELSE ScorerLoop(names, k + 1, overrides, text, meta,
                    LoopStep(names, k, overrides, text, meta, acc))

RECURSIVE ParagraphLoopPositions(_, _, _, _, _, _)
\* ParagraphLoop that numbers a ParagraphScore by its place in the list it
\* is appended to
ParagraphLoopPositions(names, overrides, paragraphs, idx, meta, acc) ==
    IF idx >= Len(paragraphs) THEN acc
    ELSE LET para == paragraphs[idx + 1]
         IN  IF para.wc < MinParagraphWords
             THEN ParagraphLoopPositions(names, overrides, paragraphs, idx + 1,
                                         meta, acc)
             ELSE LET run == ScorerLoop(names, 1, overrides, ParaText(para), meta,
                                        NoResults)
                      scored == [index |-> Len(acc.scored),
                                 overall_score |-> Overall(run.weighted_sum,
                                                           run.total_weight),
                                 word_count |-> para.wc,
                                 scores |-> run.results]
                  IN  ParagraphLoopPositions(names, overrides, paragraphs,
                                             idx + 1, meta,
                                             [scored |-> Append(acc.scored, scored),
                                              log |-> acc.log \o run.log])

RECURSIVE ParagraphLoop(_, _, _, _, _, _)
\* Pipeline._score_paragraphs, from paragraph idx (0-based) on
ParagraphLoop(names, overrides, paragraphs, idx, meta, acc) ==
    IF idx >= Len(paragraphs) THEN acc
    ELSE LET para == paragraphs[idx + 1]
         IN  IF para.wc < MinParagraphWords
             THEN ParagraphLoop(names, overrides, paragraphs, idx + 1, meta, acc)
             ELSE LET run == ScorerLoop(names, 1, overrides, ParaText(para), meta,
                                        NoResults)
                      scored == [index |-> idx,
                                 overall_score |-> Overall(run.weighted_sum,
                                                           run.total_weight),
                                 word_count |-> para.wc,
                                 scores |-> run.results]
                  IN  ParagraphLoop(names, overrides, paragraphs, idx + 1, meta,
                                    [scored |-> Append(acc.scored, scored),
                                     log |-> acc.log \o run.log])

\* ScoreParagraphs that weights every scorer by its default weight
ScoreParagraphsDefaultWeights(names, overrides, text, meta) ==
    ParagraphLoop(names, EmptyMap, Strip(text).paras, 0, meta,
                  [scored |-> <<>>, log |-> <<>>])

\* Pipeline._score_paragraphs(text, metadata)
ScoreParagraphs(names, overrides, text, meta) ==
    ParagraphLoop(names, overrides, Strip(text).paras, 0, meta,
                  [scored |-> <<>>, log |-> <<>>])

\* the tail of Pipeline.score once the loop has run: the report
FinishScore(p, text, meta, include_paragraphs, ct, overrides, run, paras) ==
    [report |-> QualityReport(Overall(run.weighted_sum, run.total_weight),
                              run.results, TextLength(text),
                              WordCount(text), paras.scored),
     weight_overrides |-> overrides,
     detected_content_type |-> ct,
     log |-> run.log \o paras.log,
     detections |-> IF p.auto_profile THEN 1 ELSE 0]

RunScore(p, text, meta, include_paragraphs, ct, overrides) ==
    FinishScore(p, text, meta, include_paragraphs, ct, overrides,
                ScorerLoop(p.scorers, 1, overrides, text, meta, NoResults),
                IF include_paragraphs
                THEN ScoreParagraphs(p.scorers, overrides, text, meta)
                ELSE [scored |-> <<>>, log |-> <<>>])

\* AutoScore that scores with the weight map as it was and stores the merged
\* map only for later calls
AutoScoreLate(p, text, meta, include_paragraphs, ct) ==
    [RunScore(p, text, meta, include_paragraphs, ct, p.weight_overrides)
        EXCEPT !.weight_overrides = MergeProfile(ct, p.weight_overrides)]

\* score on an auto-profile Pipeline: _apply_auto_profile has detected ct
\* and merged its profile before the scorer loop runs
AutoScore(p, text, meta, include_paragraphs, ct) ==
    RunScore(p, text, meta, include_paragraphs, ct, MergeProfile(ct, p.weight_overrides))

ScoreOp(p, text, meta, include_paragraphs) ==
    IF IsBlank(text)
    THEN [report |-> QualityReport(Frac(0, 1), <<>>, 0, 0, <<>>),
          weight_overrides |-> p.weight_overrides,
          detected_content_type |-> p.detected_content_type,
          log |-> <<>>, detections |-> 0]
    ELSE IF p.auto_profile
         THEN AutoScore(p, text, meta, include_paragraphs, DetectContentType(text, meta))
         ELSE RunScore(p, text, meta, include_paragraphs, p.detected_content_type, p.weight_overrides)

(***************************************************************************)
(* The Pipeline under construction arguments drawn from small sets, and    *)
(* sequences of score calls on it.                                         *)
(***************************************************************************)
\* the scorer names Pipelines of the model are built from: one that every
\* profile names and one that no profile names
ScorerChoices == {"substance", "argument"}

\* weights=: None, or one entry
WeightChoices ==
    {EmptyMap, [k \in {"argument"} |-> -100], [k \in {"substance"} |-> 0]}

ProfileChoices == {"None", "news"}

CtorArgs ==
    [scorers : SeqsUpTo(ScorerChoices, MaxScorers), weights : WeightChoices,
     profile : ProfileChoices, auto_profile : BOOLEAN]

NoCall == [op |-> "none"]
NoBatch == [status |-> "idle"]

\* the Pipeline object as a record
ThePipeline ==
    [scorers |-> scorers, auto_profile |-> auto_profile,
     weight_overrides |-> weight_overrides,
     detected_content_type |-> detected_content_type]

\* the Pipeline right after Pipeline(**args)
NewPipeline(args) ==
    [scorers |-> args.scorers, auto_profile |-> InitAutoProfile(args),
     weight_overrides |-> InitWeightOverrides(args),
     detected_content_type |-> NoContentType]

\* the state after Pipeline(**args), args drawn from argSet
InitWith(argSet) ==
    /\ InitAux
    /\ ctor \in argSet
    /\ scorers = NewPipeline(ctor).scorers
    /\ auto_profile = NewPipeline(ctor).auto_profile
    /\ weight_overrides = NewPipeline(ctor).weight_overrides
    /\ detected_content_type = NewPipeline(ctor).detected_content_type
    /\ call = NoCall
    /\ batch = NoBatch
    /\ workers = <<>>
    /\ batch_result = <<>>

Init == InitWith(CtorArgs)

\* pipeline.score(text, metadata, include_paragraphs).  call keeps what the
\* call was given and returned, the scorer calls it made, the number of
\* detect_content_type calls it made and whether it changed the Pipeline.
Score(text, meta, include_paragraphs) ==
    \E out \in {ScoreOp(ThePipeline, text, meta, include_paragraphs)} :
        /\ weight_overrides' = out.weight_overrides
        /\ detected_content_type' = out.detected_content_type
        /\ call' = [op |-> "score", text |-> text, meta |-> meta,
                    include_paragraphs |-> include_paragraphs,
                    report |-> out.report, log |-> out.log,
                    detections |-> out.detections,
                    changed |-> \/ out.weight_overrides # weight_overrides
                                \/ out.detected_content_type # detected_content_type]
        /\ UNCHANGED <<ctor, scorers, auto_profile, batch, workers, batch_result>>
        /\ UNCHANGED auxVars

Next ==
    \E text \in Texts, meta \in Metas, include_paragraphs \in BOOLEAN :
        Score(text, meta, include_paragraphs)

Spec == Init /\ [][Next]_vars

(***************************************************************************)
(* Pipeline.score_batch (pipeline.py): one worker thread per running item, *)
(* each running Pipeline.score on the shared Pipeline.  A worker's step is *)
(* one access to the Pipeline's fields together with the thread-local      *)
(* work around it; steps of different workers interleave freely.           *)
(***************************************************************************)
MaxWorkers == 8     \* the cap in min(len(texts), 8)

Min(a, b) == IF a <= b THEN a ELSE b

\* max_workers = min(len(texts), 8) if texts else 1
PoolSize(n) == IF n > 0 THEN Min(n, MaxWorkers) ELSE 1

\* _score_one: the metadata of item i (1-based here) under metadata=None,
\* one dict for all items, or a per-item list
ItemMeta(metadata, i) ==
    IF metadata.kind = "list"
    THEN IF i <= Len(metadata.metas) THEN metadata.metas[i] ELSE NoMeta
    ELSE IF metadata.kind = "dict" THEN metadata.meta ELSE NoMeta

RECURSIVE InsertByIndex(_, _)
InsertByIndex(x, sorted) ==
    IF sorted = <<>> THEN <<x>>
    ELSE IF x[1] < Head(sorted)[1] THEN <<x>> \o sorted
    ELSE <<Head(sorted)>> \o InsertByIndex(x, Tail(sorted))

RECURSIVE InsertByIndexDescending(_, _)
InsertByIndexDescending(x, sorted) ==
    IF sorted = <<>> THEN <<x>>
    ELSE IF x[1] > Head(sorted)[1] THEN <<x>> \o sorted
    ELSE <<Head(sorted)>> \o InsertByIndexDescending(x, Tail(sorted))

RECURSIVE SortByIndexDescending(_)
\* SortByIndex with the order reversed
SortByIndexDescending(results) ==
    IF results = <<>> THEN <<>>
    ELSE InsertByIndexDescending(results[Len(results)],
                                 SortByIndexDescending(SubSeq(results, 1, Len(results) - 1)))

RECURSIVE SortByIndex(_)
\* results.sort(key=lambda x: x[0]) (stable)
SortByIndex(results) ==
    IF results = <<>> THEN <<>>
    ELSE LET rest == SortByIndex(SubSeq(results, 1, Len(results) - 1))
             last == results[Len(results)]
         IN  IF rest = <<>> \/ rest[Len(rest)][1] <= last[1]
             THEN Append(rest, last)
             ELSE InsertByIndex(last, rest)

\* the items and metadata score_batch is called with
Technical40 == [pad |-> FALSE, paras |-> <<[wc |-> 40, cls |-> "technical"]>>]
News1000 == [pad |-> FALSE, paras |-> <<[wc |-> 1000, cls |-> "news"]>>]
EmptyText == [pad |-> FALSE, paras |-> <<>>]
BatchItems == {<<"a", Technical40>>, <<"b", News1000>>, <<"c", EmptyText>>}
BatchTexts == SeqsUpTo(BatchItems, MaxBatch)
BatchMetadata ==
    {[kind |-> "none", meta |-> NoMeta, metas |-> <<>>],
     [kind |-> "dict", meta |-> [url |-> "news"], metas |-> <<>>],
     [kind |-> "list", meta |-> NoMeta, metas |-> <<[url |-> "news"]>>]}

\* the Pipelines score_batch is called on
BatchCtorArgs ==
    {args \in CtorArgs : args.scorers = <<"substance", "argument">>
                         /\ args.profile = "None"}

ItemLabel(i) == batch.texts[i][1]
ItemText(i) == batch.texts[i][2]
ItemMetaOf(i) == ItemMeta(batch.metadata, i)

ZeroReport == QualityReport(Frac(0, 1), <<>>, 0, 0, <<>>)

QueuedWorker ==
    [pc |-> "queued", k |-> 1, ct |-> NoContentType, profile_weights |-> EmptyMap,
     acc |-> NoResults, report |-> ZeroReport]

\* pipeline.score_batch(texts, metadata) is called: the executor queues one
\* task per item
BatchStart(texts, metadata) ==
    /\ batch.status = "idle"
    /\ batch' = [status |-> "running", texts |-> texts, metadata |-> metadata,
                 completed |-> <<>>]
    /\ workers' = [i \in 1..Len(texts) |-> QueuedWorker]
    /\ UNCHANGED <<pipeVars, call, batch_result>>
    /\ UNCHANGED auxVars

IsRunning(i) == workers[i].pc \notin {"queued", "done"}

\* a pool thread takes the next queued item and enters Pipeline.score: the
\* blank check, and self._auto_profile
WStart(i) ==
    /\ batch.status = "running"
    /\ i \in DOMAIN workers
    /\ workers[i].pc = "queued"
    /\ \A j \in 1..(i - 1) : workers[j].pc # "queued"
    /\ Cardinality({j \in DOMAIN workers : IsRunning(j)}) < PoolSize(Len(batch.texts))
    /\ IF IsBlank(ItemText(i))
       THEN /\ workers' = [workers EXCEPT ![i].pc = "done", ![i].report = ZeroReport]
            /\ batch' = [batch EXCEPT !.completed = Append(@, i)]
       ELSE /\ workers' = [workers EXCEPT
                              ![i].pc = IF auto_profile THEN "detect" ELSE "loop"]
            /\ UNCHANGED batch
    /\ UNCHANGED <<pipeVars, call, batch_result>>
    /\ UNCHANGED auxVars

\* _apply_auto_profile: ct = detect_content_type(...);
\* self._detected_content_type = ct
WDetect(i) ==
    /\ i \in DOMAIN workers
    /\ workers[i].pc = "detect"
    /\ \E ct \in {DetectContentType(ItemText(i), ItemMetaOf(i))} :
           /\ detected_content_type' = ct
           /\ workers' = [workers EXCEPT
                             ![i].ct = ct,
                             ![i].pc = IF ct.name # "default" THEN "merge" ELSE "loop"]
    /\ UNCHANGED <<ctor, scorers, auto_profile, weight_overrides, call, batch,
                   batch_result>>
    /\ UNCHANGED auxVars

\* _apply_auto_profile: profile_weights = dict(get_profile(ct.name).weights);
\* profile_weights.update(self._weight_overrides)
WMerge(i) ==
    /\ i \in DOMAIN workers
    /\ workers[i].pc = "merge"
    /\ workers' = [workers EXCEPT
                      ![i].profile_weights = MergeProfile(workers[i].ct, weight_overrides),
                      ![i].pc = "assign"]
    /\ UNCHANGED <<pipeVars, call, batch, batch_result>>
    /\ UNCHANGED auxVars

\* _apply_auto_profile: self._weight_overrides = profile_weights
WAssign(i) ==
    /\ i \in DOMAIN workers
    /\ workers[i].pc = "assign"
    /\ weight_overrides' = workers[i].profile_weights
    /\ workers' = [workers EXCEPT ![i].pc = "loop"]
    /\ UNCHANGED <<ctor, scorers, auto_profile, detected_content_type, call, batch,
                   batch_result>>
    /\ UNCHANGED auxVars

\* one iteration of score's scorer loop: it reads self._weight_overrides
WLoop(i) ==
    /\ i \in DOMAIN workers
    /\ workers[i].pc = "loop"
    /\ workers[i].k <= Len(scorers)
    /\ workers' = [workers EXCEPT
                      ![i].acc = LoopStep(scorers, workers[i].k, weight_overrides,
                                          ItemText(i), ItemMetaOf(i), @),
                      ![i].k = @ + 1]
    /\ UNCHANGED <<pipeVars, call, batch, batch_result>>
    /\ UNCHANGED auxVars

\* the loop is over: score builds its report and _score_one returns
WFinish(i) ==
    /\ i \in DOMAIN workers
    /\ workers[i].pc = "loop"
    /\ workers[i].k > Len(scorers)
    /\ workers' = [workers EXCEPT
                      ![i].pc = "done",
                      ![i].report = QualityReport(
                          Overall(workers[i].acc.weighted_sum,
                                  workers[i].acc.total_weight),
                          workers[i].acc.results, TextLength(ItemText(i)),
                          WordCount(ItemText(i)), <<>>)]
    /\ batch' = [batch EXCEPT !.completed = Append(@, i)]
    /\ UNCHANGED <<pipeVars, call, batch_result>>
    /\ UNCHANGED auxVars

\* _score_one(i): (i, label, report)
ScoreOneResult(i) == <<i, ItemLabel(i), workers[i].report>>

\* every task is done: list(executor.map(...)) holds the results in input
\* order; they are sorted by index and the index is dropped
BatchReturn ==
    /\ batch.status = "running"
    /\ \A i \in DOMAIN workers : workers[i].pc = "done"
    /\ \E results \in {SortByIndex([i \in 1..Len(batch.texts) |-> ScoreOneResult(i)])} :
           batch_result' = [i \in 1..Len(results) |-> <<results[i][2], results[i][3]>>]
    /\ batch' = [batch EXCEPT !.status = "returned"]
    /\ UNCHANGED <<pipeVars, call, workers>>
    /\ UNCHANGED auxVars

InitBatch == InitWith(BatchCtorArgs)

NextBatch ==
    \/ \E texts \in BatchTexts, metadata \in BatchMetadata : BatchStart(texts, metadata)
    \/ \E i \in 1..MaxBatch :
           \/ WStart(i)
           \/ WDetect(i)
           \/ WMerge(i)
           \/ WAssign(i)
           \/ WLoop(i)
           \/ WFinish(i)
    \/ BatchReturn

SpecBatch == InitBatch /\ [][NextBatch]_vars

(***************************************************************************)
(* Properties of Pipeline.score, checked under Spec.                       *)
(***************************************************************************)
RECURSIVE SumOver(_, _)
\* f[1] + ... + f[n]
SumOver(f, n) == IF n = 0 THEN 0 ELSE f[n] + SumOver(f, n - 1)

Scored == call.op = "score" /\ ~(call.text.paras = <<>>)

\* C1: in every scoring call the weight used for a scorer is the caller's
\* explicit weight for it if one was given at construction, whatever the
\* profile; otherwise, with auto-profile off, the weight the profile passed
\* at construction gives it, if it names the scorer, else the scorer's own
\* default weight.
C1_WeightPrecedence ==
    call.op = "score" =>
        \A i \in 1..Len(call.log) :
            LET s == call.log[i].name
                w == call.log[i].weight
            IN  IF s \in DOMAIN ctor.weights
                THEN w = ctor.weights[s]
                ELSE ~auto_profile =>
                         IF ctor.profile # "None" /\ s \in DOMAIN Profiles[ctor.profile]
                         THEN w = Profiles[ctor.profile][s]
                         ELSE w = ScorerWeight[s]

\* a call on Pipeline(profile="news", weights={"substance": 0.0}) that
\* weighted substance 0.0 and argument by its default
C1_Witness ==
    /\ call.op = "score"
    /\ ctor.profile = "news"
    /\ "substance" \in DOMAIN ctor.weights
    /\ \E i, j \in 1..Len(call.log) :
           /\ call.log[i].name = "substance" /\ call.log[i].weight = 0
           /\ call.log[j].name = "argument" /\ call.log[j].weight = 75

\* C2: on a Pipeline built with auto_profile=True and no profile, a call's
\* overall_score is what a freshly built Pipeline with the same arguments
\* returns for the same text and metadata, whatever was scored before.
C2_HistoryIndependent ==
    (call.op = "score" /\ ctor.auto_profile /\ ctor.profile = "None") =>
        call.report.overall_score =
            ScoreOp(NewPipeline(ctor), call.text, call.meta,
                    call.include_paragraphs).report.overall_score

C7_AllScoresInUnitInterval ==
    call.op = "score" =>
        LET inUnit(x) == 0 <= x.n /\ x.n <= 100 * x.d
            r == call.report
        IN  /\ \A i \in 1..Len(r.scores) : r.scores[i].score \in 0..100
            /\ inUnit(r.overall_score)
            /\ \A i \in 1..Len(r.paragraph_scores) :
                   inUnit(r.paragraph_scores[i].overall_score)

\* C8 as stated: with exactly one scorer configured, overall_score of a
\* non-empty text equals that scorer's score, whatever its weight.
C8_SingleScorerIdentity ==
    (Scored /\ Len(scorers) = 1) =>
        call.report.overall_score = [n |-> call.report.scores[1].score, d |-> 1]

\* C8, amended: with exactly one scorer configured, overall_score of a
\* non-empty text equals that scorer's score when the weight resolved for it
\* is greater than zero, and is 0.0 when that weight is zero or negative.
C8_SingleScorerPositiveWeight ==
    (Scored /\ Len(scorers) = 1) =>
        IF call.log[1].weight > 0
        THEN call.report.overall_score = [n |-> call.report.scores[1].score, d |-> 1]
        ELSE call.report.overall_score = [n |-> 0, d |-> 1]

\* a single-scorer call under a weight other than 1.0 whose overall_score
\* is the scorer's non-zero score
C8_Witness ==
    /\ Scored
    /\ Len(scorers) = 1
    /\ call.log[1].weight > 100
    /\ call.report.scores[1].score > 0
    /\ call.report.overall_score = [n |-> call.report.scores[1].score, d |-> 1]

\* C9: grade is A when overall_score >= 0.80, B when >= 0.65, C when
\* >= 0.50, D when >= 0.35, else F, each boundary in the higher grade, and
\* label is fixed by grade.
C9_GradeThresholds ==
    call.op = "score" =>
        LET o == call.report.overall_score
            g == Grade(call.report)
            atLeast(t) == o.n >= t * o.d
        IN  /\ g \in {"A", "B", "C", "D", "F"}
            /\ g = "A" <=> atLeast(80)
            /\ g = "B" <=> (atLeast(65) /\ ~atLeast(80))
            /\ g = "C" <=> (atLeast(50) /\ ~atLeast(65))
            /\ g = "D" <=> (atLeast(35) /\ ~atLeast(50))
            /\ g = "F" <=> ~atLeast(35)
            /\ Label(call.report) = CASE g = "A" -> "High substance"
                                      [] g = "B" -> "Solid content"
                                      [] g = "C" -> "Average"
                                      [] g = "D" -> "Thin content"
                                      [] g = "F" -> "Low substance"

\* a report whose overall_score is exactly 0.80, graded A
C9_Witness ==
    /\ call.op = "score"
    /\ call.report.overall_score = [n |-> 80, d |-> 1]
    /\ Grade(call.report) = "A"

\* C10: score on an empty or whitespace-only text returns overall_score
\* 0.0, word_count 0, text_length 0 and no scorer or paragraph results,
\* runs no scorer and no content-type detection, and leaves the Pipeline's
\* weight map and detected content type as they were.
C10_BlankTextZeroReport ==
    (call.op = "score" /\ call.text.paras = <<>>) =>
        /\ call.report.overall_score = [n |-> 0, d |-> 1]
        /\ call.report.word_count = 0
        /\ call.report.text_length = 0
        /\ call.report.scores = <<>>
        /\ call.report.paragraph_scores = <<>>
        /\ call.log = <<>>
        /\ call.detections = 0
        /\ ~call.changed

\* a whitespace-only text scored on an auto-profile Pipeline that had
\* already detected a content type for an earlier text
C10_Witness ==
    /\ call.op = "score"
    /\ call.text = [pad |-> TRUE, paras |-> <<>>]
    /\ auto_profile
    /\ detected_content_type.name = "technical"
    /\ weight_overrides # ctor.weights


(***************************************************************************)
(* Properties of Pipeline.score_batch, checked under SpecBatch.            *)
(***************************************************************************)
Returned == batch.status = "returned"

\* what score returns for item i on a Pipeline freshly constructed with the
\* same arguments
IndividualReport(i) ==
    ScoreOp(NewPipeline(ctor), ItemText(i), ItemMetaOf(i), FALSE).report

\* C3: every report score_batch returns equals, index by index, the report
\* of score called on that item's text and metadata alone with the same
\* Pipeline configuration, under every interleaving and with auto_profile.
C3_BatchEqualsIndividual ==
    Returned =>
        \A i \in 1..Len(batch.texts) :
            /\ i <= Len(batch_result)
            /\ batch_result[i][2] = IndividualReport(i)

\* C4: score_batch returns only when every item is scored, one (label,
\* report) pair per input item, in input order, each label with the report
\* of its own text, whatever order the workers start and complete in; an
\* empty input gives an empty list.
C4_OnePairPerItemInInputOrder ==
    Returned =>
        /\ \A i \in DOMAIN workers : workers[i].pc = "done"
        /\ Len(batch_result) = Len(batch.texts)
        /\ \A i \in 1..Len(batch.texts) :
               /\ batch_result[i][1] = ItemLabel(i)
               /\ batch_result[i][2] = workers[i].report
               /\ batch_result[i][2].text_length = TextLength(ItemText(i))
               /\ batch_result[i][2].word_count = WordCount(ItemText(i))
               /\ IsBlank(ItemText(i)) <=> batch_result[i][2].scores = <<>>
               /\ ~IsBlank(ItemText(i)) =>
                      /\ Len(batch_result[i][2].scores) = Len(scorers)
                      /\ \A k \in 1..Len(scorers) :
                             batch_result[i][2].scores[k] =
                                 ScorerScore(scorers[k], ItemText(i), ItemMetaOf(i))
        /\ batch.texts = <<>> => batch_result = <<>>

\* two different items were scored and the second completed before the first
C4_Witness ==
    /\ Returned
    /\ Len(batch.texts) = 2
    /\ ItemLabel(1) # ItemLabel(2)
    /\ ~IsBlank(ItemText(1))
    /\ ~IsBlank(ItemText(2))
    /\ batch.completed = <<2, 1>>
    /\ Len(batch_result) = 2

\* a worker has resolved its weights and has not yet aggregated its scores
InScorerLoop(i) == workers[i].pc = "loop"

\* C5: while the workers of score_batch run on one Pipeline, the weight map
\* and the detected content type are not written between the moment a worker
\* resolves its weights and the moment it aggregates its scores.
C5_NoWriteWhileAggregating ==
    [][(\E i \in DOMAIN workers : InScorerLoop(i)) =>
           /\ weight_overrides' = weight_overrides
           /\ detected_content_type' = detected_content_type]_vars

(***************************************************************************)
(* Construction with names the registries may not hold: get_scorer         *)
(* (scorer.py), get_profile (profiles.py) and Pipeline.__init__.           *)
(***************************************************************************)
\* the modules of distill/scorers that define a scorer class under
\* @register, with the name the class registers
ScorerModules ==
    [substance |-> "substance", epistemic |-> "epistemic",
     readability |-> "readability", originality |-> "originality",
     source_authority |-> "authority", argument |-> "argument",
     complexity |-> "complexity"]

\* the modules distill/scorers/__init__.py imports
ImportedScorerModules ==
    {"substance", "epistemic", "readability", "originality", "source_authority",
     "argument"}

\* _registry.keys() once distill is imported: @register has run in every
\* imported module
RegisteredScorers == {ScorerModules[m] : m \in ImportedScorerModules}

\* _profiles.keys() once distill.profiles is imported
RegisteredProfiles == DOMAIN profiles

NoError == [type |-> "none"]

\* KeyError(f"Unknown {kind}: {name!r}. Available: {available}")
KeyError(kind, name, available) ==
    [type |-> "KeyError", kind |-> kind, name |-> name, available |-> available]

\* GetScorer that instantiates something for every name
GetScorerLenient(name) == [ok |-> TRUE, error |-> NoError]

\* get_scorer(name)
GetScorer(name) ==
    IF name \notin RegisteredScorers
    THEN [ok |-> FALSE, error |-> KeyError("scorer", name, RegisteredScorers)]
    ELSE [ok |-> TRUE, error |-> NoError]

\* get_profile(name)
GetProfile(name) ==
    IF name \notin RegisteredProfiles
    THEN [ok |-> FALSE, error |-> KeyError("profile", name, RegisteredProfiles)]
    ELSE [ok |-> TRUE, error |-> NoError]

\* Pipeline.__init__(**args): the scorers are instantiated in list order,
\* then the profile is looked up; the first KeyError leaves no Pipeline
PipelineInit(args) ==
    LET got == [i \in 1..Len(args.scorers) |-> GetScorer(args.scorers[i])]
        failed == {i \in 1..Len(args.scorers) : ~got[i].ok}
    IN  IF failed # {}
        THEN got[CHOOSE i \in failed : \A j \in failed : i <= j]
        ELSE IF args.profile # "None" /\ ~GetProfile(args.profile).ok
             THEN GetProfile(args.profile)
             ELSE [ok |-> TRUE, error |-> NoError]

\* names that no registry holds, next to the registered ones
UnknownName == "nosuch"
AnyCtorArgs ==
    [scorers : SeqsUpTo(ScorerChoices \cup {UnknownName}, MaxScorers),
     weights : WeightChoices,
     profile : ProfileChoices \cup {UnknownName},
     auto_profile : BOOLEAN]

NoCtor == [scorers |-> <<>>, weights |-> EmptyMap, profile |-> "None",
           auto_profile |-> FALSE, called |-> FALSE]

\* no Pipeline has been constructed yet
InitCtor ==
    /\ InitAux
    /\ ctor = NoCtor
    /\ scorers = <<>>
    /\ auto_profile = FALSE
    /\ weight_overrides = EmptyMap
    /\ detected_content_type = NoContentType
    /\ call = NoCall
    /\ batch = NoBatch
    /\ workers = <<>>
    /\ batch_result = <<>>

\* Pipeline(**args) is called
Construct(args) ==
    /\ call = NoCall
    /\ ctor' = args
    /\ \E out \in {PipelineInit(args)} :
           /\ call' = [op |-> "init", ok |-> out.ok, error |-> out.error]
           /\ IF out.ok
              THEN /\ scorers' = NewPipeline(args).scorers
                   /\ auto_profile' = NewPipeline(args).auto_profile
                   /\ weight_overrides' = NewPipeline(args).weight_overrides
                   /\ detected_content_type' = NewPipeline(args).detected_content_type
              ELSE UNCHANGED <<scorers, auto_profile, weight_overrides,
                               detected_content_type>>
    /\ UNCHANGED batchVars
    /\ UNCHANGED auxVars

\* a Pipeline object exists
Constructed == call.op = "score" \/ (call.op = "init" /\ call.ok)

\* pipeline.score(text, metadata) on the constructed Pipeline
ScoreConstructed(text, meta) == Constructed /\ Score(text, meta, FALSE)

NextCtor ==
    \/ \E args \in AnyCtorArgs : Construct(args)
    \/ \E text \in Texts, meta \in Metas : ScoreConstructed(text, meta)

SpecCtor == InitCtor /\ [][NextCtor]_vars

(***************************************************************************)
(* Properties of construction, checked under SpecCtor.                     *)
(***************************************************************************)
\* C11: an unknown scorer or profile name makes construction fail with an
\* error listing all registered names, before any scoring and with no partial
\* Pipeline; a Pipeline that was constructed never raises a not-found error
\* in a later scoring call.
C11_UnknownNamesFailFast ==
    /\ call.op = "init" =>
           LET unknownScorers == {i \in 1..Len(ctor.scorers) :
                                     ctor.scorers[i] \notin RegisteredScorers}
               unknownProfile == ctor.profile \notin RegisteredProfiles \cup {"None"}
           IN  /\ call.ok <=> (unknownScorers = {} /\ ~unknownProfile)
               /\ ~call.ok =>
                      /\ call.error.type = "KeyError"
                      /\ call.error.available =
                             IF unknownScorers # {} THEN RegisteredScorers
                                                    ELSE RegisteredProfiles
                      /\ call.error.name \notin call.error.available
                      /\ scorers = <<>>
                      /\ weight_overrides = EmptyMap
                      /\ detected_content_type = NoContentType
                      /\ \A text \in Texts, meta \in Metas : 
                             ~ENABLED ScoreConstructed(text, meta)
    /\ Constructed =>
           /\ \A k \in 1..Len(scorers) : GetScorer(scorers[k]).ok
           /\ ctor.profile # "None" => GetProfile(ctor.profile).ok
           /\ (call.op = "score" /\ call.detections > 0
                   /\ detected_content_type.name # "default") =>
                  GetProfile(detected_content_type.name).ok

\* a construction with registered scorers and an unknown profile failed
C11_Witness ==
    /\ call.op = "init"
    /\ ~call.ok
    /\ Len(ctor.scorers) = 2
    /\ ctor.profile = UnknownName
    /\ call.error.kind = "profile"
    /\ call.error.available = {"default", "technical", "news", "opinion"}

(***************************************************************************)
(* compute_confidence_interval (confidence.py), in fixed point.  A         *)
(* half-width and an interval bound are integers in units of 10^-9, so 1.0 *)
(* is Unit; base_hw is in units of 10^-4, density_factor in units of 10^-3 *)
(* and type_factor in units of 10^-2, each rounded towards zero.           *)
(***************************************************************************)
MaxSignals == 4     \* largest signal_count passed to compute_confidence_interval

Unit == 1000000000

\* a score in hundredths, in units of 10^-9
ToUnits(score) == score * 10000000

\* math.log(n) in units of 10^-4, for the word counts of the model
Ln(n) ==
    CASE n = 50 -> 39120
      [] n = 100 -> 46052
      [] n = 200 -> 52983
      [] n = 400 -> 59915
      [] n = 800 -> 66846
      [] n = 1000 -> 69078
      [] n = 1600 -> 73778
      [] n = 2000 -> 76009

\* base_hw: 0.15 at <= 50 words, 0.03 at >= 2000 words, log interpolation
\* between
BaseHalfWidth(word_count) ==
    IF word_count <= 50 THEN 1500
    ELSE IF word_count >= 2000 THEN 300
    ELSE 1500 - ((Ln(word_count) - Ln(50)) * (1500 - 300)) \div (Ln(2000) - Ln(50))

\* DensityFactor on the raw signal count instead of signals per 100 words
DensityFactorByCount(signal_count, word_count) ==
    IF signal_count >= 5 THEN 1000 ELSE 2000 - 200 * signal_count

\* density_factor: 1.0 at 5 or more signals per 100 words, else
\* 2.0 - signals_per_100w / 5.0
DensityFactor(signal_count, word_count) ==
    IF word_count > 0 /\ signal_count * 100 >= 5 * word_count
    THEN 1000
    ELSE IF word_count > 0
         THEN 2000 - (signal_count * 100 * 1000) \div (word_count * 5)
         ELSE 2000

\* type_factor = max(0.85, 1.0 - (signal_types - 1) * 0.03)
TypeFactor(signal_types) ==
    IF 100 - (signal_types - 1) * 3 < 85 THEN 85 ELSE 100 - (signal_types - 1) * 3

\* half_width = base_hw * density_factor * type_factor
HalfWidth(word_count, signal_count, signal_types) ==
    BaseHalfWidth(word_count) * DensityFactor(signal_count, word_count)
        * TypeFactor(signal_types)

\* max(0.0, min(1.0, x)) on a value in units of 10^-9
ClampUnit(x) == IF x < 0 THEN 0 ELSE IF x > Unit THEN Unit ELSE x

\* compute_confidence_interval(score, word_count, signal_count, signal_types)
ComputeConfidenceInterval(score, word_count, signal_count, signal_types) ==
    LET half_width == HalfWidth(word_count, signal_count, signal_types)
    IN  [lower |-> ClampUnit(ToUnits(score) - half_width),
         upper |-> ClampUnit(ToUnits(score) + half_width)]

(***************************************************************************)
(* ScoreResult with its optional confidence bounds (scorer.py) and the     *)
(* results the registered scorers build (scorers/*.py).  An optional value *)
(* is <<>> for None and <<v>> for v.                                       *)
(***************************************************************************)

\* max(0.0, min(1.0, bound)) if the bound is not None
ClampOptional(bound) == IF bound = None THEN None ELSE Some(ClampUnit(bound[1]))

\* ScoreResult(name, score, explanation=..., ci_lower=..., ci_upper=...)
\* after __post_init__
ScoreResultCI(name, score, explanation, ci_lower, ci_upper) ==
    [name |-> name, score |-> Clamp01(score), explanation |-> explanation,
     ci_lower |-> ClampOptional(ci_lower), ci_upper |-> ClampOptional(ci_upper)]

\* the explanation of each scorer's short-text result
ScorerShortExplanation ==
    [substance   |-> "Too short to evaluate.",
     epistemic   |-> "Too short to assess epistemic quality.",
     readability |-> "Too short to assess readability.",
     originality |-> "Too short to assess originality.",
     authority   |-> "Too short to assess source authority.",
     argument    |-> "Too short to assess argument structure."]

\* whether the scorer passes a confidence interval to its ScoreResult
ScorerComputesCI ==
    [substance |-> FALSE, epistemic |-> FALSE, readability |-> TRUE,
     originality |-> FALSE, authority |-> FALSE, argument |-> FALSE]

\* ReadabilityScorer: signal_count = len(sentences) + structural_elements
\* + para_count; a text of plain words is one sentence without headings or
\* list items
ReadabilitySignalCount(text) == 1 + 0 + Len(text.paras)
ReadabilitySignalTypes == 5

\* scorer.score(text, metadata) with every field of the ScoreResult
ScorerResult(name, text, meta) ==
    LET result == ScorerScore(name, text, meta)
    IN  IF WordCount(text) < ScorerMinWords[name]
        THEN ScoreResultCI(name, result.score, ScorerShortExplanation[name], None, None)
        ELSE IF ScorerComputesCI[name]
             THEN LET ci == ComputeConfidenceInterval(
                                result.score, WordCount(text),
                                ReadabilitySignalCount(text), ReadabilitySignalTypes)
                  IN  ScoreResultCI(name, result.score, "explained",
                                    Some(ci.lower), Some(ci.upper))
             ELSE ScoreResultCI(name, result.score, "explained", None, None)

\* the inputs of the calls below
ScorerWordCounts == {5, 19, 20, 29, 30, 49, 50, 400}
ScorerTexts ==
    {[pad |-> pad, paras |-> <<[wc |-> wc, cls |-> cls]>>] :
        pad \in BOOLEAN, wc \in ScorerWordCounts, cls \in {"technical", "news"}}
DirectScores == {-20, 50, 130}
DirectBounds == {None, Some(-Unit \div 10), Some(Unit \div 10), Some(9 * (Unit \div 10)),
                 Some(Unit + Unit \div 10)}
CIScores == {5, 50, 95}
CIWordCounts == {0, 25, 50, 100, 200, 400, 800, 1600}
CISignalTypes == {1, 4, 6, 7}

\* get_scorer(name).score(text, metadata)
ScorerCall(name, text, meta) ==
    /\ call' = [op |-> "scorer.score", name |-> name, text |-> text, meta |-> meta,
                result |-> ScorerResult(name, text, meta)]
    /\ UNCHANGED <<pipeVars, batchVars>>
    /\ UNCHANGED auxVars

\* ScoreResult(name="x", score=..., ci_lower=..., ci_upper=...)
ScoreResultCall(score, ci_lower, ci_upper) ==
    /\ call' = [op |-> "ScoreResult",
                result |-> ScoreResultCI("x", score, "", ci_lower, ci_upper)]
    /\ UNCHANGED <<pipeVars, batchVars>>
    /\ UNCHANGED auxVars

\* compute_confidence_interval(score, word_count, signal_count, signal_types)
ConfidenceIntervalCall(score, word_count, signal_count, signal_types) ==
    /\ call' = [op |-> "compute_confidence_interval", score |-> score,
                word_count |-> word_count, signal_count |-> signal_count,
                signal_types |-> signal_types,
                density_factor |-> DensityFactor(signal_count, word_count),
                half_width |-> HalfWidth(word_count, signal_count, signal_types),
                result |-> ComputeConfidenceInterval(score, word_count, signal_count,
                                                     signal_types)]
    /\ UNCHANGED <<pipeVars, batchVars>>
    /\ UNCHANGED auxVars

NextScorers ==
    \/ \E name \in RegisteredScorers, text \in ScorerTexts, meta \in Metas :
           ScorerCall(name, text, meta)
    \/ \E score \in DirectScores, ci_lower \in DirectBounds, ci_upper \in DirectBounds :
           ScoreResultCall(score, ci_lower, ci_upper)
    \/ \E score \in CIScores, word_count \in CIWordCounts,
          signal_count \in 0..MaxSignals, signal_types \in CISignalTypes :
           ConfidenceIntervalCall(score, word_count, signal_count, signal_types)

SpecScorers == InitCtor /\ [][NextScorers]_vars

(***************************************************************************)
(* Properties of the scorers, ScoreResult and the confidence interval,     *)
(* checked under SpecScorers.                                              *)
(***************************************************************************)
ShortCall ==
    /\ call.op = "scorer.score"
    /\ WordCount(call.text) < ScorerMinWords[call.name]

LongCall ==
    /\ call.op = "scorer.score"
    /\ WordCount(call.text) >= ScorerMinWords[call.name]

\* C12: every registered scorer, given a text shorter than its minimum,
\* returns a ScoreResult of score 0.5 whose explanation notes the
\* insufficient length.
C12_ShortTextNeutral ==
    ShortCall =>
        /\ call.result.score = 50
        /\ call.result.explanation = ScorerShortExplanation[call.name]

BothBoundsPresent ==
    /\ call.op \in {"scorer.score", "ScoreResult"}
    /\ call.result.ci_lower # None
    /\ call.result.ci_upper # None

\* C16: every ScoreResult with both ci_lower and ci_upper present satisfies
\* 0 <= ci_lower <= score <= ci_upper <= 1, whether a scorer produced it or
\* the ScoreResult constructor was called directly.
C16_BoundsBracketScore ==
    BothBoundsPresent =>
        /\ 0 <= call.result.ci_lower[1]
        /\ call.result.ci_lower[1] <= ToUnits(call.result.score)
        /\ ToUnits(call.result.score) <= call.result.ci_upper[1]
        /\ call.result.ci_upper[1] <= Unit

\* C17: every registered scorer, on a text long enough for its minimum-length
\* check, returns a ScoreResult with ci_lower and ci_upper populated.
C17_LongTextHasBounds ==
    LongCall =>
        /\ call.result.ci_lower # None
        /\ call.result.ci_upper # None

ConfidenceCalled == call.op = "compute_confidence_interval"

\* C18: with the other arguments fixed, a larger word_count, a larger
\* signal_count and a larger signal_types each never give a larger
\* half-width.
C18_MonotonicInEachArgument ==
    ConfidenceCalled =>
        /\ \A word_count \in CIWordCounts :
               word_count >= call.word_count =>
                   HalfWidth(word_count, call.signal_count, call.signal_types)
                       <= call.half_width
        /\ \A signal_count \in 0..MaxSignals :
               signal_count >= call.signal_count =>
                   HalfWidth(call.word_count, signal_count, call.signal_types)
                       <= call.half_width
        /\ \A signal_types \in CISignalTypes :
               signal_types >= call.signal_types =>
                   HalfWidth(call.word_count, call.signal_count, signal_types)
                       <= call.half_width

\* C19: doubling word_count and signal_count together never gives a wider
\* interval: the density factor is that of the same signals per 100 words,
\* and the half-width and the returned interval are no wider.
C19_DoublingNeverWider ==
    ConfidenceCalled =>
        LET doubled == ComputeConfidenceInterval(call.score, 2 * call.word_count,
                                                 2 * call.signal_count,
                                                 call.signal_types)
        IN  /\ DensityFactor(2 * call.signal_count, 2 * call.word_count)
                   = call.density_factor
            /\ HalfWidth(2 * call.word_count, 2 * call.signal_count, call.signal_types)
                   <= call.half_width
            /\ doubled.upper - doubled.lower
                   <= call.result.upper - call.result.lower

\* a call at 2 signals per 100 words whose doubling is strictly narrower
C19_Witness ==
    /\ ConfidenceCalled
    /\ call.word_count = 100
    /\ call.signal_count = 2
    /\ call.density_factor = 1600
    /\ HalfWidth(200, 4, call.signal_types) < call.half_width
    /\ call.result.lower > 0
    /\ call.result.upper < Unit

(***************************************************************************)
(* Pipeline.compare (pipeline.py): two score calls on the same Pipeline,   *)
(* then the overall and the per-dimension deltas.                          *)
(***************************************************************************)
TieThreshold == 1   \* _TIE_THRESHOLD = 0.01, in hundredths

\* x - y
FracSub(x, y) == Frac(x.n * y.d - y.n * x.d, x.d * y.d)

\* WinnerOf with the sides exchanged
WinnerOfSwapped(overall_delta) ==
    IF Abs(overall_delta.n) < TieThreshold * overall_delta.d THEN "tie"
    ELSE IF overall_delta.n > 0 THEN "B"
    ELSE "A"

\* the overall winner: tie if abs(overall_delta) < _TIE_THRESHOLD, else A
\* if overall_delta > 0, else B
WinnerOf(overall_delta) ==
    IF Abs(overall_delta.n) < TieThreshold * overall_delta.d THEN "tie"
    ELSE IF overall_delta.n > 0 THEN "A"
    ELSE "B"

\* the winner of one dimension, from the delta of two scores in hundredths
DimWinnerOf(delta) ==
    IF Abs(delta) < TieThreshold THEN "tie"
    ELSE IF delta > 0 THEN "A"
    ELSE "B"

\* scores_b_map = {r.name: r.score for r in report_b.scores}: the last
\* result of a name wins
ScoresBMap(report_b) ==
    [n \in {report_b.scores[j].name : j \in 1..Len(report_b.scores)} |->
        LET last == CHOOSE j \in 1..Len(report_b.scores) :
                        /\ report_b.scores[j].name = n
                        /\ \A k \in (j + 1)..Len(report_b.scores) :
                               report_b.scores[k].name # n
        IN  report_b.scores[last].score]

\* DimensionDelta(name, score_a, score_b, delta, winner) for one result of A
DimensionDelta(result_a, scores_b_map) ==
    LET score_b == Get(scores_b_map, result_a.name, 0)
        delta == result_a.score - score_b
    IN  [name |-> result_a.name, score_a |-> result_a.score, score_b |-> score_b,
         delta |-> delta, winner |-> DimWinnerOf(delta)]

\* DimensionDeltas iterating over report B's results
DimensionDeltasOverB(report_a, report_b) ==
    [i \in 1..Len(report_b.scores) |->
        DimensionDelta(report_b.scores[i], ScoresBMap(report_b))]

\* the loop "for result_a in report_a.scores"
DimensionDeltas(report_a, report_b) ==
    [i \in 1..Len(report_a.scores) |->
        DimensionDelta(report_a.scores[i], ScoresBMap(report_b))]

\* ComparisonResult(report_a, report_b, winner, overall_delta,
\* dimension_deltas), with the Pipeline fields the two score calls left
CompareFinish(a, b) ==
    [result |-> [report_a |-> a.report, report_b |-> b.report,
                 winner |-> WinnerOf(FracSub(a.report.overall_score,
                                             b.report.overall_score)),
                 overall_delta |-> FracSub(a.report.overall_score,
                                           b.report.overall_score),
                 dimension_deltas |-> DimensionDeltas(a.report, b.report)],
     weight_overrides |-> b.weight_overrides,
     detected_content_type |-> b.detected_content_type]

\* the Pipeline after a score call that returned out
PipelineAfter(p, out) ==
    [p EXCEPT !.weight_overrides = out.weight_overrides,
              !.detected_content_type = out.detected_content_type]

\* report_b = self.score(text_b, metadata_b), on the Pipeline as the first
\* call left it
CompareSecond(p, a, text_b, meta_b) ==
    CompareFinish(a, ScoreOp(PipelineAfter(p, a), text_b, meta_b, FALSE))

\* Pipeline.compare(text_a, text_b, metadata_a=..., metadata_b=...)
CompareOp(p, text_a, text_b, meta_a, meta_b) ==
    CompareSecond(p, ScoreOp(p, text_a, meta_a, FALSE), text_b, meta_b)

\* the texts compared: empty, technical, opinion scoring within 0.01 of the
\* technical one in every dimension, and news
Opinion40 == [pad |-> FALSE, paras |-> <<[wc |-> 40, cls |-> "opinion"]>>]
CompareTexts == {EmptyText, Technical40, Opinion40, News1000}

\* the Pipelines compare is called on
CompareCtorArgs ==
    {args \in CtorArgs : /\ args.scorers \in {<<"substance">>, <<"substance", "argument">>}
                         /\ args.weights = EmptyMap
                         /\ args.profile = "None"}

\* pipeline.compare(text_a, text_b, metadata_a=meta_a, metadata_b=meta_b)
Compare(text_a, text_b, meta_a, meta_b) ==
    \E out \in {CompareOp(ThePipeline, text_a, text_b, meta_a, meta_b)} :
        /\ weight_overrides' = out.weight_overrides
        /\ detected_content_type' = out.detected_content_type
        /\ call' = [op |-> "compare", text_a |-> text_a, text_b |-> text_b,
                    meta_a |-> meta_a, meta_b |-> meta_b, result |-> out.result]
        /\ UNCHANGED <<ctor, scorers, auto_profile, batch, workers, batch_result>>
        /\ UNCHANGED auxVars

InitCompare == InitWith(CompareCtorArgs)

NextCompare ==
    \/ \E text_a \in CompareTexts, text_b \in CompareTexts, meta_a \in Metas,
          meta_b \in Metas : Compare(text_a, text_b, meta_a, meta_b)
    \/ \E text \in CompareTexts, meta \in Metas : Score(text, meta, FALSE)

SpecCompare == InitCompare /\ [][NextCompare]_vars

(***************************************************************************)
(* Properties of Pipeline.compare, checked under SpecCompare.              *)
(***************************************************************************)
Compared == call.op = "compare"

\* C13: overall_delta is report_a.overall_score - report_b.overall_score;
\* winner is tie exactly when |overall_delta| < 0.01, A when
\* overall_delta >= 0.01 and B when overall_delta <= -0.01.
C13_OverallWinner ==
    Compared =>
        LET a == call.result.report_a.overall_score
            b == call.result.report_b.overall_score
            delta == call.result.overall_delta
        IN  /\ delta.d > 0
            /\ delta.n * (a.d * b.d) = (a.n * b.d - b.n * a.d) * delta.d
            /\ call.result.winner \in {"A", "B", "tie"}
            /\ call.result.winner = "tie"
                   <=> (-delta.d < delta.n /\ delta.n < delta.d)
            /\ call.result.winner = "A" <=> delta.n >= delta.d
            /\ call.result.winner = "B" <=> delta.n <= -delta.d

\* B won by exactly 0.01
C13_Witness ==
    /\ Compared
    /\ call.result.overall_delta = [n |-> -1, d |-> 1]
    /\ call.result.winner = "B"
    /\ call.result.report_a.overall_score = [n |-> 80, d |-> 1]
    /\ call.result.report_b.overall_score = [n |-> 81, d |-> 1]

SameOnBothSides ==
    /\ Compared
    /\ call.text_a = call.text_b
    /\ call.meta_a = call.meta_b

\* C14: compare(X, X), same text and metadata on both sides, gives winner
\* tie, |overall_delta| < 0.01 and a tie in every dimension, for every
\* Pipeline configuration and whatever was scored before.
C14_SelfCompareTies ==
    SameOnBothSides =>
        /\ call.result.winner = "tie"
        /\ Abs(call.result.overall_delta.n) < call.result.overall_delta.d
        /\ \A i \in 1..Len(call.result.dimension_deltas) :
               call.result.dimension_deltas[i].winner = "tie"

\* a non-empty text compared with itself on an auto-profile Pipeline whose
\* weight map an earlier call had already replaced
C14_Witness ==
    /\ SameOnBothSides
    /\ call.text_a = News1000
    /\ auto_profile
    /\ weight_overrides = Profiles.technical
    /\ detected_content_type.name = "default"
    /\ Len(call.result.dimension_deltas) = 2
    /\ call.result.winner = "tie"

\* C15: dimension_deltas has one entry per ScoreResult of report A, in
\* report A's order; score_b is report B's score for that name, or 0.0 if
\* report B has none; delta = score_a - score_b; winner is tie iff
\* |delta| < 0.01, else the side with the higher score.
C15_DimensionDeltas ==
    Compared =>
        LET ra == call.result.report_a.scores
            rb == call.result.report_b.scores
            dd == call.result.dimension_deltas
        IN  /\ Len(dd) = Len(ra)
            /\ \A i \in 1..Len(ra) :
                   /\ dd[i].name = ra[i].name
                   /\ dd[i].score_a = ra[i].score
                   /\ IF \E j \in 1..Len(rb) : rb[j].name = dd[i].name
                      THEN \E j \in 1..Len(rb) : /\ rb[j].name = dd[i].name
                                                 /\ rb[j].score = dd[i].score_b
                      ELSE dd[i].score_b = 0
                   /\ dd[i].delta = dd[i].score_a - dd[i].score_b
                   /\ dd[i].winner = "tie" <=> (-1 < dd[i].delta /\ dd[i].delta < 1)
                   /\ dd[i].winner = "A" <=> dd[i].score_a - dd[i].score_b >= 1
                   /\ dd[i].winner = "B" <=> dd[i].score_b - dd[i].score_a >= 1

\* a compare whose side B was empty: every dimension of A against 0.0
C15_Witness ==
    /\ Compared
    /\ call.text_b = EmptyText
    /\ call.result.report_b.scores = <<>>
    /\ Len(call.result.dimension_deltas) = 2
    /\ \A i \in 1..2 : /\ call.result.dimension_deltas[i].score_b = 0
                       /\ call.result.dimension_deltas[i].score_a > 0
                       /\ call.result.dimension_deltas[i].winner = "A"

(***************************************************************************)
(* detect_content_type called on its own (content_type.py), over texts     *)
(* with and without matches of each category's patterns and URLs of each   *)
(* category.                                                               *)
(***************************************************************************)
Categories == {"technical", "news", "opinion"}

\* paragraphs of every class; a "plain" paragraph matches no pattern
DetectParas == [wc : {40, 1000}, cls : Categories \cup {"plain"}]
DetectTexts == [pad : {FALSE}, paras : SeqsUpTo(DetectParas, 2)]
DetectMetas == {NoMeta} \cup {[url |-> c] : c \in Categories}

\* detect_content_type(text, metadata); scores is the dict of densities it
\* built, empty when it returned before building it
DetectCall(text, meta) ==
    /\ call' = [op |-> "detect_content_type", text |-> text, meta |-> meta,
                scores |-> IF IsBlank(text) \/ WordCount(text) = 0
                           THEN EmptyMap
                           ELSE Densities(text, meta),
                result |-> DetectContentType(text, meta)]
    /\ UNCHANGED <<pipeVars, batchVars>>
    /\ UNCHANGED auxVars

NextDetect == \E text \in DetectTexts, meta \in DetectMetas : DetectCall(text, meta)

SpecDetect == InitCtor /\ [][NextDetect]_vars

(***************************************************************************)
(* Properties of detect_content_type, checked under SpecDetect.            *)
(***************************************************************************)
Detected == call.op = "detect_content_type"

\* C20: a category with no signal match in the text keeps density 0 and is
\* never returned, whatever the URL; a text with no match in any category
\* yields "default" for every URL.
C20_UrlAloneNeverWins ==
    Detected =>
        /\ \A c \in Categories :
               TotalHits(c, call.text) = 0 =>
                   /\ c \in DOMAIN call.scores => call.scores[c] = [n |-> 0, d |-> 1]
                   /\ call.result.name # c
        /\ (\A c \in Categories : TotalHits(c, call.text) = 0) =>
               /\ call.result.name = "default"
               /\ call.result.confidence = [n |-> 0, d |-> 1]

\* a text without any signal word, with a news URL, detected as default
C20_Witness ==
    /\ Detected
    /\ call.text = [pad |-> FALSE, paras |-> <<[wc |-> 40, cls |-> "plain"]>>]
    /\ call.meta = [url |-> "news"]
    /\ call.scores["news"] = [n |-> 0, d |-> 1]
    /\ call.result.name = "default"

\* the largest density detect_content_type computed in a call
MaxDensity(scores) ==
    CHOOSE m \in {scores[c] : c \in Categories} :
        \A c \in Categories : FracLeq(scores[c], m)

\* the category of largest density that comes first in the priority
\* technical, news, opinion
PriorityWinner(scores) ==
    IF scores["technical"] = MaxDensity(scores) THEN "technical"
    ELSE IF scores["news"] = MaxDensity(scores) THEN "news"
    ELSE "opinion"

\* C21: detect_content_type returns the category of maximal density, ties
\* going to technical, then news, then opinion; when that density is below
\* 0.15 it returns "default" with that density as confidence and no signals;
\* the confidence is always within [0, 1].
C21_MaxDensityWithPriority ==
    Detected =>
        /\ FracLeq(Frac(0, 1), call.result.confidence)
        /\ FracLeq(call.result.confidence, Frac(100, 1))
        /\ call.scores # EmptyMap =>
               /\ call.result.confidence = MaxDensity(call.scores)
               /\ IF FracLess(MaxDensity(call.scores), Frac(ConfidenceThreshold, 1))
                  THEN /\ call.result.name = "default"
                       /\ call.result.signals = EmptyMap
                  ELSE call.result.name = PriorityWinner(call.scores)

\* a technical and a news paragraph of equal density: technical is returned
C21_Witness ==
    /\ Detected
    /\ call.text = [pad |-> FALSE, paras |-> <<[wc |-> 40, cls |-> "news"],
                                               [wc |-> 40, cls |-> "technical"]>>]
    /\ call.scores["technical"] = call.scores["news"]
    /\ call.scores["opinion"] # call.scores["news"]
    /\ call.result.name = "technical"
    /\ call.result.signals # EmptyMap

(***************************************************************************)
(* Pipeline.score with and without include_paragraphs (pipeline.py), over  *)
(* texts of up to three paragraphs just below, at and above the minimum    *)
(* paragraph length.                                                       *)
(***************************************************************************)
ParagraphParas ==
    {[wc |-> 29, cls |-> "technical"], [wc |-> 30, cls |-> "news"],
     [wc |-> 40, cls |-> "opinion"]}

\* unpadded texts of up to three paragraphs and padded ones of at most one
ParagraphTexts ==
    [pad : {FALSE}, paras : SeqsUpTo(ParagraphParas, 3)]
        \cup [pad : {TRUE}, paras : SeqsUpTo(ParagraphParas, 1)]

ParagraphCtorArgs ==
    [scorers : {<<"substance", "argument">>},
     weights : WeightChoices, profile : ProfileChoices, auto_profile : BOOLEAN]

InitParagraphs == InitWith(ParagraphCtorArgs)

NextParagraphs ==
    \E text \in ParagraphTexts, include_paragraphs \in BOOLEAN :
        Score(text, NoMeta, include_paragraphs)

SpecParagraphs == InitParagraphs /\ [][NextParagraphs]_vars

(***************************************************************************)
(* Properties of paragraph decomposition, checked under SpecParagraphs.    *)
(***************************************************************************)
WithParagraphs == Scored /\ call.include_paragraphs

\* _PARAGRAPH_SPLIT.split(text.strip()) of the call's text
ParagraphsOf(text) == Strip(text).paras

\* the 0-based positions of the paragraphs of at least 30 words
LongParagraphs(text) ==
    {i \in 0..(Len(ParagraphsOf(text)) - 1) :
        ParagraphsOf(text)[i + 1].wc >= MinParagraphWords}

\* C22 as stated: the i-th ParagraphScore of the list (0-based) has index i.
C22_IndexIsListPosition ==
    WithParagraphs =>
        \A i \in 1..Len(call.report.paragraph_scores) :
            call.report.paragraph_scores[i].index = i - 1

\* C22: paragraph_scores holds exactly one ParagraphScore for each paragraph
\* of at least 30 words and none for a shorter one, in document order; index
\* is the 0-based position of the paragraph among all the paragraphs of the
\* text, the skipped ones counted.
C22_OnePerLongParagraphIndexedByDocumentPosition ==
    WithParagraphs =>
        LET ps == call.report.paragraph_scores
            paragraphs == ParagraphsOf(call.text)
        IN  /\ Len(ps) = Cardinality(LongParagraphs(call.text))
            /\ {ps[i].index : i \in 1..Len(ps)} = LongParagraphs(call.text)
            /\ \A i \in 1..Len(ps) :
                   /\ ps[i].word_count = paragraphs[ps[i].index + 1].wc
                   /\ ps[i].word_count >= MinParagraphWords
                   /\ \A k \in 1..Len(ps[i].scores) :
                          ps[i].scores[k] =
                              ScorerScore(scorers[k],
                                          ParaText(paragraphs[ps[i].index + 1]),
                                          call.meta)
                   /\ \A j \in 1..(i - 1) : ps[j].index < ps[i].index

\* a short paragraph, a long one, a short one: one ParagraphScore, index 1
C22_Witness ==
    /\ WithParagraphs
    /\ Len(call.text.paras) = 3
    /\ call.text.paras[1].wc = 29
    /\ call.text.paras[2].wc = 30
    /\ call.text.paras[3].wc = 29
    /\ Len(call.report.paragraph_scores) = 1
    /\ call.report.paragraph_scores[1].index = 1


\* sum over the results of score * weight, and of the weights, under the
\* weight map overrides
WeightedSumOf(overrides, results) ==
    SumOver([k \in 1..Len(results) |->
                results[k].score * WeightFor(overrides, results[k].name)],
            Len(results))

TotalWeightOf(overrides, results) ==
    SumOver([k \in 1..Len(results) |-> WeightFor(overrides, results[k].name)],
            Len(results))

\* what a score call with include_paragraphs=True leaves, against the same
\* call without paragraphs on the Pipeline as it was before the call and as
\* it is after it
ParagraphStep ==
    (call'.op = "score" /\ call'.include_paragraphs) =>
        \A plain \in {ScoreOp(ThePipeline, call'.text, call'.meta, FALSE)},
           after \in {ScoreOp(ThePipeline', call'.text, call'.meta, FALSE)},
           report \in {call'.report} :
            /\ report.overall_score = plain.report.overall_score
            /\ report.scores = plain.report.scores
            /\ report.overall_score = after.report.overall_score
            /\ report.scores = after.report.scores
            /\ weight_overrides' = plain.weight_overrides
            /\ \A i \in 1..Len(report.paragraph_scores) :
                   report.paragraph_scores[i].overall_score =
                       Overall(WeightedSumOf(weight_overrides',
                                             report.paragraph_scores[i].scores),
                               TotalWeightOf(weight_overrides',
                                             report.paragraph_scores[i].scores))
            /\ ~IsBlank(call'.text) =>
                   report.overall_score =
                       Overall(WeightedSumOf(weight_overrides', report.scores),
                               TotalWeightOf(weight_overrides', report.scores))
            /\ LongParagraphs(call'.text) = {} => report.paragraph_scores = <<>>

\* C23: score(text, include_paragraphs=True) returns the overall_score and
\* the per-scorer results that score(text) returns on the same Pipeline;
\* each ParagraphScore.overall_score is the weighted mean of the paragraph's
\* results under the weight map that gave the document's overall_score; a
\* text with no paragraph of 30 words or more has an empty paragraph list.
C23_ParagraphsDoNotPerturb == [][ParagraphStep]_vars

\* an auto-profile call that merged a profile into the weight map and scored
\* two paragraphs with it
C23_Witness ==
    /\ WithParagraphs
    /\ call.changed
    /\ "substance" \in DOMAIN weight_overrides
    /\ Len(call.report.paragraph_scores) = 2
    /\ call.report.paragraph_scores[1].overall_score
           # call.report.paragraph_scores[2].overall_score


(***************************************************************************)
(* The registries after "import distill" (scorer.py, profiles.py,          *)
(* scorers/__init__.py): register_profile, get_profile and get_scorer      *)
(* calls, Pipelines built over all registered scorers, and scoring.        *)
(***************************************************************************)
\* the scorer names in sorted order, the registered ones and the others
SortedScorerNames ==
    <<"argument", "authority", "complexity", "epistemic", "originality",
      "readability", "substance">>

IsRegisteredScorer(name) == name \in RegisteredScorers

\* list(list_scorers().keys()): the registered names, sorted
ListScorers == SelectSeq(SortedScorerNames, IsRegisteredScorer)

BuiltinProfileNames == {"default", "technical", "news", "opinion"}

\* the ScorerProfile objects callers register: a built-in name again or a
\* new name, with one of two weight maps
RegisterChoices ==
    [name : {"news", "custom"},
     weights : {[k \in {"substance"} |-> 900],
                [k \in {"authority", "originality"} |-> 100]}]

\* register_profile(profile): _profiles[profile.name] = profile
RegisterProfile(profile) ==
    /\ profiles' = [n \in DOMAIN profiles \cup {profile.name} |->
                        IF n = profile.name THEN profile.weights ELSE profiles[n]]
    /\ call' = [op |-> "register_profile", name |-> profile.name,
                weights |-> profile.weights]
    /\ UNCHANGED <<pipeVars, batchVars, cache, originalityVars, watchVars>>

\* get_profile(name): the profile's weights, or the KeyError
GetProfileCall(name) ==
    /\ call' = [op |-> "get_profile", name |-> name, ok |-> GetProfile(name).ok,
                error |-> GetProfile(name).error,
                weights |-> IF GetProfile(name).ok
                            THEN Some(GetProfileWeights(name))
                            ELSE None]
    /\ UNCHANGED <<pipeVars, batchVars, auxVars>>

\* get_scorer(name)
GetScorerCall(name) ==
    /\ call' = [op |-> "get_scorer", name |-> name, ok |-> GetScorer(name).ok,
                error |-> GetScorer(name).error]
    /\ UNCHANGED <<pipeVars, batchVars, auxVars>>

\* Pipeline(weights=..., profile=..., auto_profile=...) with scorers=None:
\* the scorer list is list(list_scorers().keys())
DefaultArgs(opts) ==
    [scorers |-> ListScorers, weights |-> opts.weights, profile |-> opts.profile,
     auto_profile |-> opts.auto_profile]

RegistryCtorOpts ==
    [weights : {EmptyMap}, profile : {"None", "news", "custom"},
     auto_profile : BOOLEAN]

ConstructDefault(opts) ==
    \E args \in {DefaultArgs(opts)}, out \in {PipelineInit(DefaultArgs(opts))} :
        /\ call' = [op |-> "init", ok |-> out.ok, error |-> out.error,
                    default_scorers |-> TRUE]
        /\ IF out.ok
           THEN /\ ctor' = args
                /\ scorers' = NewPipeline(args).scorers
                /\ auto_profile' = NewPipeline(args).auto_profile
                /\ weight_overrides' = NewPipeline(args).weight_overrides
                /\ detected_content_type' = NewPipeline(args).detected_content_type
           ELSE UNCHANGED pipeVars
        /\ UNCHANGED <<batchVars, auxVars>>

\* a Pipeline has been constructed
PipelineExists == scorers # <<>>

\* pipeline.score(text) on the Pipeline constructed last
ScoreDefault(text) == PipelineExists /\ Score(text, NoMeta, FALSE)

RegistryTexts == {Technical40, News1000}

NextRegistry ==
    \/ \E profile \in RegisterChoices : RegisterProfile(profile)
    \/ \E name \in BuiltinProfileNames \cup {"custom"} : GetProfileCall(name)
    \/ \E name \in {"substance", "authority", "complexity", UnknownName} :
           GetScorerCall(name)
    \/ \E opts \in RegistryCtorOpts : ConstructDefault(opts)
    \/ \E text \in RegistryTexts : ScoreDefault(text)

SpecRegistry == InitCtor /\ [][NextRegistry]_vars

(***************************************************************************)
(* Properties of the registries, checked under SpecRegistry.               *)
(***************************************************************************)
\* C24: a registered profile is immutable: no register_profile, get_profile,
\* Pipeline construction or scoring call changes the weights get_profile
\* returns for a name that is already registered.
C24_RegisteredProfilesImmutable ==
    [][\A name \in DOMAIN profiles :
           /\ name \in DOMAIN profiles'
           /\ profiles'[name] = profiles[name]]_vars

\* C25: every built-in profile gives a weight to "authority" and to
\* "originality", and the news profile's authority weight is at least 1.0.
C25_BuiltinProfilesWeightAuthorityAndOriginality ==
    (/\ call.op = "get_profile"
     /\ call.name \in BuiltinProfileNames
     /\ profiles[call.name] = Profiles[call.name]) =>
        /\ call.ok
        /\ {"authority", "originality"} \subseteq DOMAIN call.weights[1]
        /\ call.name = "news" => call.weights[1]["authority"] >= 100

\* C26: after "import distill", get_scorer("complexity") returns a scorer and
\* a Pipeline built without a scorer list includes the complexity scorer.
C26_ComplexityRegistered ==
    /\ (call.op = "get_scorer" /\ call.name = "complexity") => call.ok
    /\ (call.op = "init" /\ call.ok /\ call.default_scorers) =>
           \E i \in 1..Len(scorers) : scorers[i] = "complexity"


(***************************************************************************)
(* ScoreCache (cache.py): the score_history table as the set of its rows.  *)
(* A row keeps the columns the cache reads back: text_hash, source,        *)
(* profile, scorer_set and scores_json.                                    *)
(***************************************************************************)
\* hashlib.sha256(text.encode("utf-8")).hexdigest(): one digest per text
TextHash(text) == [sha256 |-> text]

\* the occurrences of name in names
Occurrences(names, name) == SelectSeq(names, LAMBDA x : x = name)

RECURSIVE SortedFrom(_, _)
\* sorted(names), from the i-th name of the alphabet on
SortedFrom(names, i) ==
    IF i > Len(SortedScorerNames) THEN <<>>
    ELSE Occurrences(names, SortedScorerNames[i]) \o SortedFrom(names, i + 1)

\* sorted(scorer_names)
Sorted(names) == SortedFrom(names, 1)

\* ",".join(names): the string is kept as the sequence of the names joined,
\* "" being the empty one
Join(names) == names

\* profile or "default"
ProfileStr(profile) ==
    IF profile = None \/ profile = Some("") THEN "default" ELSE profile[1]

\* ",".join(sorted(scorer_names)) if scorer_names else ""
ScorerSetStr(scorer_names) ==
    IF scorer_names = None \/ scorer_names = Some(<<>>)
    THEN Join(<<>>)
    ELSE Join(Sorted(scorer_names[1]))

\* ScoreCache._cache_key(text, profile, scorer_names)
CacheKey(text, profile, scorer_names) ==
    <<TextHash(text), ProfileStr(profile), ScorerSetStr(scorer_names)>>

\* json.dumps(report_dict) and json.loads(row["scores_json"])
JsonDumps(value) == [json |-> value]
JsonLoads(str) == str.json

RowKey(row) == <<row.text_hash, row.profile, row.scorer_set>>

\* ScoreCache.get on the table rows: the report of a row of that key, or None
CacheGet(rows, text, profile, scorer_names) ==
    LET found == {row \in rows : RowKey(row) = CacheKey(text, profile, scorer_names)}
    IN  IF found = {} THEN {None}
        ELSE {Some(JsonLoads(row.scores_json)) : row \in found}

\* ScoreCache.put on the table rows: INSERT OR REPLACE under
\* UNIQUE(text_hash, profile, scorer_set)
CachePut(rows, text, report_dict, source, profile, scorer_names) ==
    LET key == CacheKey(text, profile, scorer_names)
    IN  {row \in rows : RowKey(row) # key}
            \cup {[text_hash |-> key[1], source |-> source, profile |-> key[2],
                   scorer_set |-> key[3], scores_json |-> JsonDumps(report_dict)]}

\* ScoreCache.clear(source=source): DELETE ... AND source LIKE %source%
CacheClear(rows, source) ==
    IF source = None THEN {}
    ELSE {row \in rows : row.source # source[1]}

MaxRows == 2

CacheTexts == {Technical40, News1000}
CacheProfiles == {None, Some("default"), Some("news")}
CacheScorerNames ==
    {None, Some(<<"substance">>), Some(<<"substance", "substance">>),
     Some(<<"substance", "epistemic">>), Some(<<"epistemic", "substance">>)}
CacheReports ==
    {[overall_score |-> 720, grade |-> "B", word_count |-> 120],
     [overall_score |-> 850, grade |-> "A", word_count |-> 120]}
\* the source label of each text: the file it was read from
SourceOf(text) == IF text = Technical40 THEN "a.txt" ELSE "b.txt"
CacheSources == {SourceOf(text) : text \in CacheTexts}

\* cache.put(text, report_dict, source=source, profile=profile,
\*           scorer_names=scorer_names), while the table has room
PutCall(text, report_dict, source, profile, scorer_names) ==
    /\ \/ Cardinality(cache) < MaxRows
       \/ \E row \in cache : RowKey(row) = CacheKey(text, profile, scorer_names)
    /\ cache' = CachePut(cache, text, report_dict, source, profile, scorer_names)
    /\ call' = [op |-> "cache.put", text |-> text, profile |-> profile,
                scorer_names |-> scorer_names, report |-> report_dict]
    /\ UNCHANGED <<pipeVars, batchVars, profiles, originalityVars, watchVars>>

\* cache.get(text, profile=profile, scorer_names=scorer_names)
GetCall(text, profile, scorer_names) ==
    /\ \E result \in CacheGet(cache, text, profile, scorer_names) :
           call' = [op |-> "cache.get", text |-> text, profile |-> profile,
                    scorer_names |-> scorer_names, result |-> result]
    /\ UNCHANGED <<pipeVars, batchVars, auxVars>>

\* cache.clear(source=source)
ClearCall(source) ==
    /\ cache' = CacheClear(cache, source)
    /\ call' = [op |-> "cache.clear", source |-> source,
                deleted |-> Cardinality(cache) - Cardinality(CacheClear(cache, source))]
    /\ UNCHANGED <<pipeVars, batchVars, profiles, originalityVars, watchVars>>

NextCache ==
    \/ \E text \in CacheTexts, report_dict \in CacheReports,
          profile \in CacheProfiles, scorer_names \in CacheScorerNames :
           PutCall(text, report_dict, SourceOf(text), profile, scorer_names)
    \/ \E text \in CacheTexts, profile \in CacheProfiles,
          scorer_names \in CacheScorerNames : GetCall(text, profile, scorer_names)
    \/ \E source \in {None} \cup {Some(s) : s \in CacheSources} : ClearCall(source)

SpecCache == InitCtor /\ [][NextCache]_vars

(***************************************************************************)
(* Properties of ScoreCache, checked under SpecCache.                      *)
(***************************************************************************)
\* the set of the names in a list of scorer names (None: no names)
NameSet(scorer_names) ==
    IF scorer_names = None THEN {}
    ELSE {scorer_names[1][i] : i \in 1..Len(scorer_names[1])}

\* the key as the claim states it: the text, the profile with None meaning
\* "default", the set of the scorer names
StatedKey(text, profile, scorer_names) ==
    <<text, ProfileStr(profile), NameSet(scorer_names)>>

\* the stated key of a stored row
StatedRowKey(row) ==
    <<row.text_hash.sha256, row.profile,
      {row.scorer_set[i] : i \in 1..Len(row.scorer_set)}>>

\* C27: the store holds at most one entry per key (text, profile with None
\* meaning "default", set of scorer names), and get returns the report
\* stored under the key of its arguments, or None when there is none.
C27_OneEntryPerKeyAndGetFindsIt ==
    /\ \A r1, r2 \in cache : StatedRowKey(r1) = StatedRowKey(r2) => r1 = r2
    /\ call.op = "cache.get" =>
           LET stored == {row \in cache :
                             StatedRowKey(row) = StatedKey(call.text, call.profile,
                                                           call.scorer_names)}
           IN  IF stored = {} THEN call.result = None
               ELSE \E row \in stored : call.result = Some(JsonLoads(row.scores_json))


(***************************************************************************)
(* The score and gate commands (cli.py) over the ScoreCache: each builds   *)
(* its own Pipeline, looks the text up in the cache, and scores and stores *)
(* on a miss.  Sources are files; their metadata is None.                  *)
(***************************************************************************)
\* round(x, 3) of a score kept as a fraction of hundredths, in thousandths
Round3(x) ==
    LET q == (10 * x.n) \div x.d
        r == (10 * x.n) % x.d
    IN  IF 2 * r > x.d \/ (2 * r = x.d /\ q % 2 = 1) THEN q + 1 ELSE q

\* QualityReport.to_dict(): the fields the cache and the gate read
ToDict(report) ==
    [overall_score |-> Round3(report.overall_score), grade |-> Grade(report),
     word_count |-> report.word_count]

\* scorers.split(",") if scorers else None; the option string is kept as
\* the sequence of its comma-separated parts
ScorerNamesOf(scorers_opt) ==
    IF scorers_opt = None \/ scorers_opt = Some(<<>>) THEN None ELSE scorers_opt

\* Pipeline(scorers=scorer_names, profile=profile, auto_profile=auto_profile)
CliPipeline(scorer_names, profile, auto) ==
    NewPipeline([scorers |-> IF scorer_names = None THEN ListScorers
                             ELSE scorer_names[1],
                 weights |-> EmptyMap,
                 profile |-> IF profile = None THEN "None" ELSE profile[1],
                 auto_profile |-> auto])

\* effective_scorer_names = scorer_names or [s.name for s in pipeline._scorers]
EffectiveNames(scorer_names, p) ==
    IF scorer_names = None \/ scorer_names = Some(<<>>)
    THEN Some(p.scorers)
    ELSE scorer_names

\* one source of a command, on Pipeline p and the table rows: the cache
\* lookup unless --no-cache, and on a miss the scoring and the cache.put
CliItem(rows, p, text, scorer_names, profile, no_cache) ==
    LET cached == IF no_cache THEN None
                  ELSE CHOOSE c \in CacheGet(rows, text, profile, scorer_names) : TRUE
        out == ScoreOp(p, text, NoMeta, FALSE)
        effective == EffectiveNames(scorer_names, p)
    IN  IF cached # None
        THEN [hit |-> TRUE, shown |-> cached[1],
              lookup_key |-> Some(CacheKey(text, profile, scorer_names)),
              store_key |-> None, rows |-> rows, p |-> p]
        ELSE [hit |-> FALSE, shown |-> ToDict(out.report),
              lookup_key |-> IF no_cache THEN None
                             ELSE Some(CacheKey(text, profile, scorer_names)),
              store_key |-> Some(CacheKey(text, profile, effective)),
              rows |-> CachePut(rows, text, ToDict(out.report), SourceOf(text),
                                profile, effective),
              p |-> [p EXCEPT !.weight_overrides = out.weight_overrides,
                              !.detected_content_type = out.detected_content_type]]

RECURSIVE GateLoop(_, _, _, _, _, _, _)
\* the "for src in all_sources" loop of gate, from the k-th source on
GateLoop(rows, p, sources, k, scorer_names, profile, acc) ==
    IF k > Len(sources) THEN [rows |-> rows, items |-> acc]
    ELSE LET item == CliItem(rows, p, sources[k], scorer_names, profile,
                             acc.no_cache)
         IN  GateLoop(item.rows, item.p, sources, k + 1, scorer_names, profile,
                      [no_cache |-> acc.no_cache,
                       items |-> Append(acc.items, [text |-> sources[k],
                                                    hit |-> item.hit,
                                                    shown |-> item.shown,
                                                    lookup_key |-> item.lookup_key,
                                                    store_key |-> item.store_key])])

CliTexts == {Technical40, News1000}
CliScorers == {None, Some(<<"substance">>)}
CliProfiles == {None, Some("news")}

\* distill score SOURCE [--scorers s] [--profile p] [--auto-profile] [--no-cache],
\* while the table has room
CliScore(text, scorers_opt, profile, auto, no_cache) ==
    IF auto /\ profile # None
    THEN /\ call' = [op |-> "cli.score", usage_error |-> TRUE]
         /\ UNCHANGED <<pipeVars, batchVars, auxVars>>
    ELSE \E item \in {CliItem(cache, CliPipeline(ScorerNamesOf(scorers_opt),
                                                 profile, auto),
                              text, ScorerNamesOf(scorers_opt), profile, no_cache)} :
             /\ Cardinality(item.rows) <= MaxRows
             /\ cache' = item.rows
             /\ call' = [op |-> "cli.score", usage_error |-> FALSE,
                         scorers |-> scorers_opt, profile |-> profile,
                         auto_profile |-> auto, no_cache |-> no_cache,
                         items |-> <<[text |-> text, hit |-> item.hit,
                                      shown |-> item.shown,
                                      lookup_key |-> item.lookup_key,
                                      store_key |-> item.store_key]>>]
             /\ UNCHANGED <<pipeVars, batchVars, profiles, originalityVars, watchVars>>

\* distill gate SOURCES... [--scorers s] [--profile p] [--auto-profile] [--no-cache],
\* while the table has room
CliGate(sources, scorers_opt, profile, auto, no_cache) ==
    IF auto /\ profile # None
    THEN /\ call' = [op |-> "cli.gate", usage_error |-> TRUE]
         /\ UNCHANGED <<pipeVars, batchVars, auxVars>>
    ELSE \E out \in {GateLoop(cache, CliPipeline(ScorerNamesOf(scorers_opt),
                                                 profile, auto),
                              sources, 1, ScorerNamesOf(scorers_opt), profile,
                              [no_cache |-> no_cache, items |-> <<>>])} :
             /\ Cardinality(out.rows) <= MaxRows
             /\ cache' = out.rows
             /\ call' = [op |-> "cli.gate", usage_error |-> FALSE,
                         scorers |-> scorers_opt, profile |-> profile,
                         auto_profile |-> auto, no_cache |-> no_cache,
                         items |-> out.items.items]
             /\ UNCHANGED <<pipeVars, batchVars, profiles, originalityVars, watchVars>>

NextCli ==
    \/ \E text \in CliTexts, scorers_opt \in CliScorers, profile \in CliProfiles,
          auto \in BOOLEAN, no_cache \in BOOLEAN :
           CliScore(text, scorers_opt, profile, auto, no_cache)
    \/ \E sources \in SeqsUpTo(CliTexts, 2) \ {<<>>}, scorers_opt \in CliScorers,
          profile \in CliProfiles, auto \in BOOLEAN, no_cache \in BOOLEAN :
           CliGate(sources, scorers_opt, profile, auto, no_cache)

SpecCli == InitCtor /\ [][NextCli]_vars

(***************************************************************************)
(* Properties of the cached commands, checked under SpecCli.               *)
(***************************************************************************)
CliRan == call.op \in {"cli.score", "cli.gate"} /\ ~call.usage_error

\* C30: in score and gate without --no-cache, the key a source is looked up
\* under is the key its fresh report is stored under, whatever the options,
\* --scorers omitted or not; so the same invocation run again finds the
\* report in the cache.
C30_LookupKeyIsStoreKey ==
    (CliRan /\ ~call.no_cache) =>
        \A i \in 1..Len(call.items) :
            /\ call.items[i].store_key # None =>
                   call.items[i].store_key = call.items[i].lookup_key
            /\ CacheGet(cache, call.items[i].text, call.profile,
                        ScorerNamesOf(call.scorers)) # {None}


(***************************************************************************)
(* OriginalityScorer.score (scorers/originality.py) called by several      *)
(* threads on one instance, with sentence_transformers installed           *)
(* (_HAS_ML true).  A thread's step is one access to self._model or the    *)
(* construction of a SentenceTransformer; the threads interleave between   *)
(* steps, as batch workers do.                                             *)
(***************************************************************************)
MaxThreads == 2

\* the texts a thread scores: with at least three paragraphs or fewer
OriginalityParagraphCounts == {1, 3}

IdleThread == [pc |-> "idle", paragraphs |-> 0, made |-> FALSE, got |-> None]

\* the executor starts n threads over the one scorer instance
StartThreads(n) ==
    /\ threads = <<>>
    /\ threads' = [i \in 1..n |-> IdleThread]
    /\ UNCHANGED <<pipeVars, call, batchVars, profiles, cache, model, watchVars>>

\* score(text) up to "if _HAS_ML and has_enough_paragraphs": the thread goes
\* on to _get_model or finishes without the model
TScore(i, paragraphs) ==
    /\ threads[i].pc = "idle"
    /\ threads' = [threads EXCEPT ![i].pc = IF paragraphs >= 3 THEN "check" ELSE "rest",
                                  ![i].paragraphs = paragraphs,
                                  ![i].got = None]
    /\ UNCHANGED <<pipeVars, call, batchVars, profiles, cache, model, watchVars>>

\* _get_model: if self._model is None and _HAS_ML
TCheck(i) ==
    /\ threads[i].pc = "check"
    /\ threads' = [threads EXCEPT ![i].pc = IF model = None THEN "construct"
                                            ELSE "return"]
    /\ UNCHANGED <<pipeVars, call, batchVars, profiles, cache, model, watchVars>>

\* SentenceTransformer("all-MiniLM-L6-v2"): the thread builds a model
TConstruct(i) ==
    /\ threads[i].pc = "construct"
    /\ threads' = [threads EXCEPT ![i].pc = "assign", ![i].made = TRUE]
    /\ UNCHANGED <<pipeVars, call, batchVars, profiles, cache, model, watchVars>>

\* self._model = <the model the thread built>
TAssign(i) ==
    /\ threads[i].pc = "assign"
    /\ model' = Some(i)
    /\ threads' = [threads EXCEPT ![i].pc = "return"]
    /\ UNCHANGED <<pipeVars, call, batchVars, profiles, cache, watchVars>>

\* return self._model
TReturn(i) ==
    /\ threads[i].pc = "return"
    /\ threads' = [threads EXCEPT ![i].pc = "rest", ![i].got = model]
    /\ UNCHANGED <<pipeVars, call, batchVars, profiles, cache, model, watchVars>>

\* the rest of score, with the model it got or without one
TRest(i) ==
    /\ threads[i].pc = "rest"
    /\ threads' = [threads EXCEPT ![i].pc = "idle"]
    /\ UNCHANGED <<pipeVars, call, batchVars, profiles, cache, model, watchVars>>

NextOriginality ==
    \/ \E n \in 1..MaxThreads : StartThreads(n)
    \/ \E i \in DOMAIN threads, paragraphs \in OriginalityParagraphCounts :
           TScore(i, paragraphs)
    \/ \E i \in DOMAIN threads : TCheck(i)
    \/ \E i \in DOMAIN threads : TConstruct(i)
    \/ \E i \in DOMAIN threads : TAssign(i)
    \/ \E i \in DOMAIN threads : TReturn(i)
    \/ \E i \in DOMAIN threads : TRest(i)

SpecOriginality == InitCtor /\ [][NextOriginality]_vars

(***************************************************************************)
(* Properties of the lazy model load, checked under SpecOriginality.       *)
(***************************************************************************)
\* the threads that have constructed a SentenceTransformer
Constructors == {i \in DOMAIN threads : threads[i].made}

\* C28: under concurrent score calls on one OriginalityScorer the enrichment
\* model is constructed at most once, and once self._model is set it is
\* never replaced.
C28_ModelConstructedOnce ==
    [][/\ Cardinality(Constructors') <= 1
       /\ model # None => model' = model]_vars


(***************************************************************************)
(* The watch command: debounced re-scoring of a watched file.  Time is    *)
(* counted in whole seconds.  A threading.Timer runs its function when    *)
(* its interval has elapsed unless it was cancelled before; the observer  *)
(* thread delivers the events one at a time.                               *)
(***************************************************************************)

\* --debounce, default=2.0
Debounce == 2

MaxEvents == 3
MaxTime == 7

WatchedPath == "article.md"
WatchPaths == {WatchedPath, "other.md"}

\* a Timer that cancel() leaves as it is (it never stops a timer)
CancelNothing(ts) == ts

\* if timer is not None: timer.cancel()
\* cancel() stops a timer that has not run yet and does nothing to one that has
CancelTimer(ts) ==
    IF ts = <<>> \/ ts[Len(ts)].state # "pending"
    THEN ts
    ELSE [ts EXCEPT ![Len(ts)].state = "cancelled"]

\* threading.Timer(debounce, _on_change); timer.start()
StartTimer(ts, at) == Append(ts, [deadline |-> at + Debounce, state |-> "pending"])

PendingTimers == {i \in DOMAIN timers : timers[i].state = "pending"}

\* _Handler.on_modified(event), event.src_path = path
OnModified(path) ==
    /\ Len(events) < MaxEvents
    /\ events' = Append(events, [at |-> now, path |-> path])
    /\ timers' = IF path # WatchedPath
                 THEN timers
                 ELSE StartTimer(CancelTimer(timers), now)
    /\ UNCHANGED <<now, rescores>>
    /\ UNCHANGED <<pipeVars, call, batchVars, profiles, cache, originalityVars>>

\* the interval of Timer i has elapsed and it was not cancelled: _on_change()
TimerFire(i) ==
    /\ timers[i].state = "pending"
    /\ timers[i].deadline = now
    /\ timers' = [timers EXCEPT ![i].state = "fired"]
    /\ rescores' = Append(rescores, now)
    /\ UNCHANGED <<now, events>>
    /\ UNCHANGED <<pipeVars, call, batchVars, profiles, cache, originalityVars>>

\* a second passes; a timer whose interval has elapsed runs before the next one
Tick ==
    /\ now < MaxTime
    /\ \A i \in PendingTimers : timers[i].deadline > now
    /\ now' = now + 1
    /\ UNCHANGED <<timers, events, rescores>>
    /\ UNCHANGED <<pipeVars, call, batchVars, profiles, cache, originalityVars>>

NextWatch ==
    \/ \E path \in WatchPaths : OnModified(path)
    \/ \E i \in DOMAIN timers : TimerFire(i)
    \/ Tick

SpecWatch == InitCtor /\ [][NextWatch]_vars

\* the times of the modification events of the watched file, in order
Modifications ==
    LET mine == SelectSeq(events, LAMBDA e : e.path = WatchedPath)
    IN  [k \in DOMAIN mine |-> mine[k].at]

\* the re-scores at a time after lo and up to hi
RescoresIn(lo, hi) == {r \in DOMAIN rescores : rescores[r] > lo /\ rescores[r] <= hi}

\* every modification of i+1..j comes less than the debounce interval after the one before
IsBurst(i, j) ==
    /\ i <= j
    /\ \A k \in i..(j - 1) : Modifications[k + 1] - Modifications[k] < Debounce

\* the debounce interval after modification j has passed without a
\* modification in it or at its end
Settled(j) ==
    IF j = Len(Modifications)
    THEN now > Modifications[j] + Debounce
    ELSE Modifications[j + 1] > Modifications[j] + Debounce

\* C29: a burst of modification events, each less than the debounce interval
\* after the one before, triggers exactly one re-score, one debounce interval
\* after its last event; two modifications more than the debounce interval
\* apart trigger two re-scores; at most one debounce timer is pending
C29_DebounceCoalesces ==
    /\ \A i, j \in DOMAIN Modifications :
          IsBurst(i, j) /\ Settled(j) =>
              /\ Cardinality(RescoresIn(Modifications[i], Modifications[j] + Debounce)) = 1
              /\ \E r \in DOMAIN rescores : rescores[r] = Modifications[j] + Debounce
    /\ \A k \in DOMAIN Modifications :
          (k + 1 \in DOMAIN Modifications
              /\ Modifications[k + 1] > Modifications[k] + Debounce
              /\ Settled(k + 1)) =>
              Cardinality(RescoresIn(Modifications[k],
                                     Modifications[k + 1] + Debounce)) = 2
    /\ Cardinality(PendingTimers) <= 1

\* a burst of two modifications one second apart re-scored once, and a third
\* modification more than the debounce interval later re-scored on its own
C29_Witness ==
    /\ Modifications = <<0, 1, 4>>
    /\ rescores = <<3, 6>>
    /\ now = 7
    /\ PendingTimers = {}

====
